---- MODULE Spec2Model ----
(***************************************************************************)
(* Model of the version resolution and channel inference engine of the    *)
(* HoloMotion installer (src/src/main.rs).                                 *)
(*                                                                         *)
(* Strings are sequences of characters.  A character is a one-character   *)
(* TLA+ string, except ArabicDigit, which stands for U+0663, a decimal    *)
(* digit outside ASCII that takes two bytes in UTF-8.  u32 values are     *)
(* pairs <<hi, lo>> of 16-bit limbs (value = hi * 65536 + lo), so that    *)
(* the full width of the Rust integer fields is kept.                     *)
(***************************************************************************)
EXTENDS Integers, Sequences, FiniteSets, TLC

\* ------------------------------------------------------------------------
\* Characters and bytes
\* ------------------------------------------------------------------------

DigitSeq == <<"0", "1", "2", "3", "4", "5", "6", "7", "8", "9">>

LowerSeq == <<"a", "b", "c", "d", "e", "f", "g", "h", "i", "j", "k", "l", "m",
              "n", "o", "p", "q", "r", "s", "t", "u", "v", "w", "x", "y", "z">>

UpperSeq == <<"A", "B", "C", "D", "E", "F", "G", "H", "I", "J", "K", "L", "M",
              "N", "O", "P", "Q", "R", "S", "T", "U", "V", "W", "X", "Y", "Z">>

Range(f) == {f[i] : i \in DOMAIN f}

IndexOf(seq, c) == CHOOSE i \in DOMAIN seq : seq[i] = c

\* U+0663 ARABIC-INDIC DIGIT THREE: general category Nd, UTF-8 bytes D9 A3.
ArabicDigit == "U+0663"

\* c.is_ascii_digit()
AsciiDigit == Range(DigitSeq)

\* The regex class \d (Unicode-aware in the regex crate: any Nd character).
UnicodeDigit == AsciiDigit \cup {ArabicDigit}

\* The regex class [0-9A-Za-z\-\.]
SemverIdentChar == AsciiDigit \cup Range(LowerSeq) \cup Range(UpperSeq) \cup {"-", "."}

\* The regex class [a-f0-9]
HexChar == AsciiDigit \cup {"a", "b", "c", "d", "e", "f"}

\* The UTF-8 encoding of a character.
Bytes(c) ==
    CASE c \in AsciiDigit       -> <<47 + IndexOf(DigitSeq, c)>>
      [] c \in Range(LowerSeq)  -> <<96 + IndexOf(LowerSeq, c)>>
      [] c \in Range(UpperSeq)  -> <<64 + IndexOf(UpperSeq, c)>>
      [] c = "\t"               -> <<9>>
      [] c = " "                -> <<32>>
      [] c = "+"                -> <<43>>
      [] c = "-"                -> <<45>>
      [] c = "."                -> <<46>>
      [] c = "/"                -> <<47>>
      [] c = "_"                -> <<95>>
      [] c = ArabicDigit        -> <<217, 163>>

RECURSIVE Utf8(_)
\* The UTF-8 bytes of a string (what String::len counts and String::cmp compares).
Utf8(s) == IF s = <<>> THEN <<>> ELSE Bytes(Head(s)) \o Utf8(Tail(s))

\* ------------------------------------------------------------------------
\* Orderings
\* ------------------------------------------------------------------------

\* std::cmp::Ordering
Ordering == {"Less", "Equal", "Greater"}

IntCmp(x, y) == IF x < y THEN "Less" ELSE IF x > y THEN "Greater" ELSE "Equal"

RECURSIVE BytesCmp(_, _)
\* Lexicographic comparison of two byte sequences (impl Ord for [u8]).
BytesCmp(a, b) ==
    IF a = <<>> THEN (IF b = <<>> THEN "Equal" ELSE "Less")
    ELSE IF b = <<>> THEN "Greater"
    ELSE IF Head(a) # Head(b) THEN IntCmp(Head(a), Head(b))
    ELSE BytesCmp(Tail(a), Tail(b))

\* A comparison that takes the shorter string as the smaller one, as a numeric
\* comparison of identifiers would.
StrCmp_by_length(a, b) ==
    IF Len(Utf8(a)) # Len(Utf8(b)) THEN IntCmp(Len(Utf8(a)), Len(Utf8(b)))
    ELSE BytesCmp(Utf8(a), Utf8(b))

\* impl Ord for String: byte-wise lexicographic.
StrCmp(a, b) == BytesCmp(Utf8(a), Utf8(b))

\* u32::cmp on limb pairs.
U32Cmp(x, y) == IF x[1] # y[1] THEN IntCmp(x[1], y[1]) ELSE IntCmp(x[2], y[2])

\* ------------------------------------------------------------------------
\* u32 parsing (str::parse::<u32>)
\* ------------------------------------------------------------------------

Limb == 65536

RECURSIVE ParseU32From(_, _)
\* Accumulate the digits of s into acc with checked_mul(10) and checked_add;
\* the result is <<value>> or <<>> for a ParseIntError.
ParseU32From(acc, s) ==
    IF s = <<>> THEN <<acc>>
    ELSE IF Head(s) \notin AsciiDigit THEN <<>>
    ELSE LET d   == IndexOf(DigitSeq, Head(s)) - 1
             lo2 == acc[2] * 10 + d
             hi2 == acc[1] * 10 + (lo2 \div Limb)
         IN  IF hi2 >= Limb THEN <<>>
             ELSE ParseU32From(<<hi2, lo2 % Limb>>, Tail(s))

ParseU32(s) == IF s = <<>> THEN <<>> ELSE ParseU32From(<<0, 0>>, s)

\* ------------------------------------------------------------------------
\* Option and Result values
\* ------------------------------------------------------------------------

\* Option<T>: the empty sequence is None, a one-element sequence is Some(x).
None == <<>>

Some(x) == <<x>>

\* Result<T>: Ok(v), or Err carrying the kind of the error and its argument.
Ok(v) == [tag |-> "Ok", err |-> "", val |-> v]

Err(kind, arg) == [tag |-> "Err", err |-> kind, val |-> arg]

\* ------------------------------------------------------------------------
\* struct Version and Version::parse
\* ------------------------------------------------------------------------

\* Whether s is a non-empty run of characters of class S.
IsRun(s, S) == s # <<>> /\ \A i \in DOMAIN s : s[i] \in S

\* The first index >= from at which c occurs in s, or 0.
FirstIndex(s, c, from) ==
    IF \E i \in from..Len(s) : s[i] = c
    THEN CHOOSE i \in from..Len(s) : s[i] = c /\ \A j \in from..(i - 1) : s[j] # c
    ELSE 0

\* The length of the longest run of characters of class S starting at index from.
RunLength(s, S, from) ==
    IF \E i \in from..Len(s) : s[i] \notin S
    THEN (CHOOSE i \in from..Len(s) : s[i] \notin S /\ \A j \in from..(i - 1) : s[j] \in S) - from
    ELSE Len(s) - from + 1

\* The index of the first c after position p, or 0 (also when p is 0).
IndexAfter(s, c, p) == IF p = 0 THEN 0 ELSE FirstIndex(s, c, p + 1)

\* The date form's groups, once the text is cut at its separators.
date_groups(g1, g2, g3, g4) ==
    IF /\ IsRun(g1, UnicodeDigit) /\ IsRun(g2, UnicodeDigit) /\ IsRun(g3, UnicodeDigit)
       /\ Len(g4) = 8 /\ IsRun(g4, UnicodeDigit)
    THEN Some(<<g1, g2, g3, Some(g4), None>>)
    ELSE None

\* The date form with its separators at p1, p2 (dots) and p3 (dash).
date_split(s, p1, p2, p3) ==
    IF p3 = 0 THEN None
    ELSE date_groups(SubSeq(s, 1, p1 - 1), SubSeq(s, p1 + 1, p2 - 1),
                     SubSeq(s, p2 + 1, p3 - 1), SubSeq(s, p3 + 1, Len(s)))

date_dots(s, p1, p2) == date_split(s, p1, p2, IndexAfter(s, "-", p2))

date_dot(s, p1) == date_dots(s, p1, IndexAfter(s, ".", p1))

\* Captures of ^(\d+)\.(\d+)\.(\d+)-(\d{8})$ on s: None, or Some of
\* <<g1, g2, g3, pre_release, build_metadata>> as Version::parse stores them.
date_regex(s) == date_dot(s, FirstIndex(s, ".", 1))

\* The general form's groups: the three numbers, and what follows them, in
\* which the first "+" is at index plus (0 if there is none).
semver_groups(g1, g2, g3, rest, plus) ==
    IF /\ IsRun(g1, UnicodeDigit) /\ IsRun(g2, UnicodeDigit) /\ IsRun(g3, UnicodeDigit)
       /\ (rest = <<>> \/ Head(rest) = "-" \/ plus = 1)
       /\ (rest # <<>> /\ Head(rest) = "-"
             => IsRun(SubSeq(rest, 2, IF plus = 0 THEN Len(rest) ELSE plus - 1),
                      SemverIdentChar))
       /\ (plus # 0 => IsRun(SubSeq(rest, plus + 1, Len(rest)), SemverIdentChar))
    THEN Some(<<g1, g2, g3,
                IF rest # <<>> /\ Head(rest) = "-"
                THEN Some(SubSeq(rest, 2, IF plus = 0 THEN Len(rest) ELSE plus - 1))
                ELSE None,
                IF plus # 0 THEN Some(SubSeq(rest, plus + 1, Len(rest))) ELSE None>>)
    ELSE None

semver_rest(g1, g2, g3, rest) == semver_groups(g1, g2, g3, rest, FirstIndex(rest, "+", 1))

\* The general form with its dots at p1 and p2 and a patch run of n3 digits.
semver_split(s, p1, p2, n3) ==
    semver_rest(SubSeq(s, 1, p1 - 1), SubSeq(s, p1 + 1, p2 - 1),
                SubSeq(s, p2 + 1, p2 + n3), SubSeq(s, p2 + n3 + 1, Len(s)))

semver_dots(s, p1, p2) ==
    IF p2 = 0 THEN None ELSE semver_split(s, p1, p2, RunLength(s, UnicodeDigit, p2 + 1))

semver_dot(s, p1) == semver_dots(s, p1, IndexAfter(s, ".", p1))

\* Captures of
\*   ^(\d+)\.(\d+)\.(\d+)(?:-([0-9A-Za-z\-\.]+))?(?:\+([0-9A-Za-z\-\.]+))?$
\* on s: None, or Some of <<g1, g2, g3, g4, g5>> with g4, g5 optional groups.
semver_regex(s) == semver_dot(s, FirstIndex(s, ".", 1))

\* The struct literal of Version::parse once the three numbers are converted:
\* a failed `parse()?` returns its ParseIntError to the caller.
MakeVersion(major, minor, patch, pre_release, build_metadata, raw) ==
    IF major = None \/ minor = None \/ patch = None
    THEN Err("ParseIntError", <<>>)
    ELSE Ok([major |-> major[1], minor |-> minor[1], patch |-> patch[1],
             pre_release |-> pre_release, build_metadata |-> build_metadata,
             raw |-> raw])

\* The Version built from the groups g of either regex.
from_captures(raw, g) ==
    MakeVersion(ParseU32(g[1]), ParseU32(g[2]), ParseU32(g[3]), g[4], g[5], raw)

\* Version::parse on the captures of the two regexes.
parse_captures(raw, date, semver) ==
    IF date # None THEN from_captures(raw, date[1])
    ELSE IF semver # None THEN from_captures(raw, semver[1])
    ELSE Err("InvalidVersionFormat", raw)

\* Version::parse
Version_parse(version_str) ==
    parse_captures(version_str, date_regex(version_str), semver_regex(version_str))

\* Version::is_release
is_release(v) == v.pre_release = None

\* Some(pr) => pr.len() == 8 && pr.chars().all(|c| c.is_ascii_digit())
is_date_text(pr) == Len(Utf8(pr)) = 8 /\ \A i \in DOMAIN pr : pr[i] \in AsciiDigit

\* Version::is_date_version
is_date_version(v) == IF v.pre_release = None THEN FALSE ELSE is_date_text(v.pre_release[1])

\* The match with the arms for (None, Some) and (Some, None) exchanged.
pre_release_cmp_swapped(self, other) ==
    IF self.pre_release = None /\ other.pre_release = None THEN "Equal"
    ELSE IF self.pre_release = None THEN "Less"
    ELSE IF other.pre_release = None THEN "Greater"
    ELSE StrCmp(self.pre_release[1], other.pre_release[1])

\* The last match of Version::cmp, on the two pre_release fields.
pre_release_cmp(self, other) ==
    IF self.pre_release = None /\ other.pre_release = None THEN "Equal"
    ELSE IF self.pre_release = None THEN "Greater"
    ELSE IF other.pre_release = None THEN "Less"
    ELSE IF is_date_version(self) /\ is_date_version(other)
         THEN StrCmp(self.pre_release[1], other.pre_release[1])
         ELSE StrCmp(self.pre_release[1], other.pre_release[1])

\* The chain of matches of Version::cmp, given the three numeric comparisons.
cmp_chain(major, minor, patch, pre_release) ==
    IF major # "Equal" THEN major
    ELSE IF minor # "Equal" THEN minor
    ELSE IF patch # "Equal" THEN patch
    ELSE pre_release

\* impl Ord for Version
Version_cmp(self, other) ==
    cmp_chain(U32Cmp(self.major, other.major), U32Cmp(self.minor, other.minor),
              U32Cmp(self.patch, other.patch), pre_release_cmp(self, other))

\* impl PartialOrd for Version
Version_partial_cmp(self, other) == Some(Version_cmp(self, other))

\* The operators <, > that PartialOrd gives.
Version_lt(a, b) == Version_partial_cmp(a, b) = Some("Less")

Version_gt(a, b) == Version_partial_cmp(a, b) = Some("Greater")

\* #[derive(PartialEq, Eq)] for Version: every field is compared.
Version_eq(a, b) ==
    /\ a.major = b.major
    /\ a.minor = b.minor
    /\ a.patch = b.patch
    /\ a.pre_release = b.pre_release
    /\ a.build_metadata = b.build_metadata
    /\ a.raw = b.raw

\* ------------------------------------------------------------------------
\* enum Channel
\* ------------------------------------------------------------------------

Channel == {"Master", "Release"}

\* Channel::as_str
Channel_as_str(c) ==
    IF c = "Master" THEN <<"m", "a", "s", "t", "e", "r">>
    ELSE <<"r", "e", "l", "e", "a", "s", "e">>

\* char::is_whitespace, for the characters of the model
Whitespace == {" ", "\t", "\n", "\r"}

RECURSIVE trim_start(_)
\* str::trim_start
trim_start(s) == IF s # <<>> /\ Head(s) \in Whitespace THEN trim_start(Tail(s)) ELSE s

RECURSIVE trim_end(_)
\* str::trim_end
trim_end(s) ==
    IF s # <<>> /\ s[Len(s)] \in Whitespace THEN trim_end(SubSeq(s, 1, Len(s) - 1)) ELSE s

\* str::trim
trim(s) == trim_end(trim_start(s))

\* char::to_lowercase, for the characters of the model
lower(c) == IF c \in Range(UpperSeq) THEN LowerSeq[IndexOf(UpperSeq, c)] ELSE c

\* str::to_lowercase
to_lowercase(s) == [i \in DOMAIN s |-> lower(s[i])]

\* The match of Channel::from_str on the lowercased string.
from_lowercase(lowered, s) ==
    IF lowered = <<"m", "a", "s", "t", "e", "r">> THEN Ok("Master")
    ELSE IF lowered = <<"r", "e", "l", "e", "a", "s", "e">> THEN Ok("Release")
    ELSE Err("InvalidChannel", s)

\* Channel::from_str
Channel_from_str(s) == from_lowercase(to_lowercase(s), s)

\* ------------------------------------------------------------------------
\* HoloMotionInstaller::extract_version_from_git_describe
\* ------------------------------------------------------------------------

StartsWith(s, p) == Len(s) >= Len(p) /\ SubSeq(s, 1, Len(p)) = p

\* The least element of a set of indexes, or 0.
LeastOrZero(hits) == IF hits = {} THEN 0 ELSE CHOOSE i \in hits : \A j \in hits : i <= j

\* The greatest element of a set of indexes, or 0.
GreatestOrZero(hits) == IF hits = {} THEN 0 ELSE CHOOSE i \in hits : \A j \in hits : j <= i

\* The first index >= from at which p occurs in s as a substring, or 0.
FindSub(s, p, from) ==
    LeastOrZero({i \in from..(Len(s) - Len(p) + 1) : SubSeq(s, i, i + Len(p) - 1) = p})

\* The last index at which c occurs in s, or 0.
LastIndex(s, c) == GreatestOrZero({i \in DOMAIN s : s[i] = c})

RefsTagsPrefix == <<"r", "e", "f", "s", "/", "t", "a", "g", "s", "/">>

\* Whether -\d+-g[a-f0-9]+$ matches s from index i on, the run of digits
\* after the dash at i being n long.
suffix_at(s, i, n) ==
    /\ n >= 1
    /\ i + n + 2 <= Len(s)
    /\ s[i + n + 1] = "-"
    /\ s[i + n + 2] = "g"
    /\ IsRun(SubSeq(s, i + n + 3, Len(s)), HexChar)

\* The start of the leftmost match of -\d+-g[a-f0-9]+$ in s, or 0.
git_suffix_regex(s) ==
    LeastOrZero({i \in DOMAIN s :
                    s[i] = "-" /\ suffix_at(s, i, RunLength(s, UnicodeDigit, i + 1))})

\* version.strip_prefix("refs/tags/") when it starts with it
strip_refs_tags(version) ==
    IF StartsWith(version, RefsTagsPrefix)
    THEN SubSeq(version, Len(RefsTagsPrefix) + 1, Len(version))
    ELSE version

\* The part after the slash at index k (the whole string when k is 0).
after_index(version, k) == SubSeq(version, k + 1, Len(version))

\* version.split('/').last() when it contains a slash
last_part(version) == after_index(version, LastIndex(version, "/"))

\* The part before the match at index k (the whole string when k is 0).
before_index(version, k) == IF k = 0 THEN version ELSE SubSeq(version, 1, k - 1)

\* git_suffix_regex.replace(&version, "")
strip_git_suffix(version) == before_index(version, git_suffix_regex(version))

\* The leading 'v' removed whatever the length.
strip_v_any_length(version) ==
    IF version # <<>> /\ Head(version) = "v" THEN Tail(version) ELSE version

\* version[1..] when it starts with 'v' and is longer than one byte
strip_v(version) ==
    IF version # <<>> /\ Head(version) = "v" /\ Len(Utf8(version)) > 1
    THEN Tail(version)
    ELSE version

extract_version_from_git_describe(raw_version) ==
    Ok(strip_v(strip_git_suffix(last_part(strip_refs_tags(raw_version)))))

\* ------------------------------------------------------------------------
\* HoloMotionInstaller::get_latest_version
\* ------------------------------------------------------------------------

\* The limit of `.take(100)` on the local tag list.
TakeLimit == 100

Take(seq, n) == SubSeq(seq, 1, IF Len(seq) < n THEN Len(seq) ELSE n)

\* One line of `git ls-remote --tags --refs origin` for a tag: <hash>\trefs/tags/<tag>.
LsRemoteLine(tag) == <<"a", "b", "c", "\t">> \o RefsTagsPrefix \o tag

\* The piece between the first occurrence of "refs/tags/", which ends before
\* index from, and the next occurrence at k2 (the end of the line when k2 is 0).
piece(line, from, k2) == SubSeq(line, from, IF k2 = 0 THEN Len(line) ELSE k2 - 1)

second_piece(line, k1) ==
    IF k1 = 0 THEN None
    ELSE Some(piece(line, k1 + Len(RefsTagsPrefix),
                    FindSub(line, RefsTagsPrefix, k1 + Len(RefsTagsPrefix))))

\* line.split("refs/tags/").nth(1)
tag_part(line) == second_piece(line, FindSub(line, RefsTagsPrefix, 1))

\* A Release filter that keeps plain releases only.
should_include_release_only(channel, version) ==
    IF channel = "Release" THEN is_release(version) ELSE TRUE

\* The channel filter: `should_include`.
should_include(channel, version) ==
    IF channel = "Release" THEN is_release(version) \/ is_date_version(version)
    ELSE TRUE

\* `if let Ok(version) = Version::parse(..)` and `if should_include`: the
\* version pushed for one tag, if any.
push_if_included(channel, version) ==
    IF version.tag # "Ok" THEN <<>>
    ELSE IF should_include(channel, version.val) THEN <<version.val>>
    ELSE <<>>

\* `if let Ok(version_str) = self.extract_version_from_git_describe(..)`
parse_if_extracted(channel, version_str) ==
    IF version_str.tag # "Ok" THEN <<>>
    ELSE push_if_included(channel, Version_parse(version_str.val))

\* The body of both collection loops for one tag text.
collect_one(channel, tag) ==
    parse_if_extracted(channel, extract_version_from_git_describe(tag))

\* `if let Some(tag_part) = line.split("refs/tags/").nth(1)`
collect_tag_part(channel, part) ==
    IF part = None THEN <<>> ELSE collect_one(channel, part[1])

RECURSIVE collect_method1(_, _)
\* The loop over the lines of `git ls-remote` (method 1).
collect_method1(channel, lines) ==
    IF lines = <<>> THEN <<>>
    ELSE collect_tag_part(channel, tag_part(Head(lines)))
         \o collect_method1(channel, Tail(lines))

RECURSIVE collect_method2(_, _)
\* The loop over the lines of `git tag -l` (method 2), after take(100).
collect_method2(channel, lines) ==
    IF lines = <<>> THEN <<>>
    ELSE collect_one(channel, Head(lines)) \o collect_method2(channel, Tail(lines))

\* A choice in which a tie goes to the second list.
select_versions_strict(versions_method1, versions_method2) ==
    IF Len(versions_method1) > Len(versions_method2)
    THEN versions_method1
    ELSE versions_method2

\* The list chosen as the working set.
select_versions(versions_method1, versions_method2) ==
    IF Len(versions_method1) >= Len(versions_method2)
    THEN versions_method1
    ELSE versions_method2

\* x placed after the first k elements of sorted.
insert_at(sorted, x, k) == SubSeq(sorted, 1, k) \o <<x>> \o SubSeq(sorted, k + 1, Len(sorted))

\* One step of the stable sort: x goes after every element that is not greater.
sort_insert(sorted, x) ==
    insert_at(sorted, x,
              Cardinality({i \in DOMAIN sorted : Version_cmp(sorted[i], x) # "Greater"}))

RECURSIVE sort(_)
\* versions.sort(): a stable sort by Version::cmp.
sort(versions) ==
    IF versions = <<>> THEN <<>>
    ELSE sort_insert(sort(SubSeq(versions, 1, Len(versions) - 1)), versions[Len(versions)])

\* versions.last().unwrap(), then latest.raw.clone()
latest_raw(versions) ==
    IF versions = <<>> THEN [tag |-> "Panic", err |-> "unwrap on None", val |-> <<>>]
    ELSE Ok(versions[Len(versions)].raw)

\* The outcome of running a git command: it could not be run ("NoExec"), it
\* exited non-zero ("Fail"), or it succeeded ("Success") printing `lines`.
CmdStatus == {"NoExec", "Fail", "Success"}

\* The end of get_latest_version without the check for an empty working set.
resolve_versions_unchecked(channel, versions_method1, versions_method2, versions) ==
    [result |-> latest_raw(sort(versions)),
     reached |-> TRUE,
     versions_method1 |-> versions_method1,
     versions_method2 |-> versions_method2,
     versions |-> versions]

\* The end of get_latest_version: the empty check, the sort and the result.
\* The record holds the returned Result and the locals.
resolve_versions(channel, versions_method1, versions_method2, versions) ==
    [result |-> IF versions = <<>>
                THEN Err("NoValidVersions", Channel_as_str(channel))
                ELSE latest_raw(sort(versions)),
     reached |-> TRUE,
     versions_method1 |-> versions_method1,
     versions_method2 |-> versions_method2,
     versions |-> versions]

\* get_latest_version from the two filtered lists on.
resolve_methods(channel, versions_method1, versions_method2) ==
    resolve_versions(channel, versions_method1, versions_method2,
                     select_versions(versions_method1, versions_method2))

\* What get_latest_version returns when it ends before the lists are filtered.
early_return(result) ==
    [result |-> result, reached |-> FALSE,
     versions_method1 |-> <<>>, versions_method2 |-> <<>>, versions |-> <<>>]

\* get_latest_version, given the outcome `pre` of its first three calls
\* (assert_repos_exist, ensure_correct_remote, fetch_remote) and the outcomes of
\* the two tag listings.
get_latest_version(channel, pre, ls_remote, tag_list) ==
    IF pre.tag # "Ok" THEN early_return(pre)
    ELSE IF ls_remote.status = "NoExec" \/ tag_list.status = "NoExec"
    THEN early_return(Err("Io", <<>>))
    ELSE resolve_methods(
            channel,
            IF ls_remote.status = "Success"
            THEN collect_method1(channel, ls_remote.lines) ELSE <<>>,
            IF tag_list.status = "Success"
            THEN collect_method2(channel, Take(tag_list.lines, TakeLimit)) ELSE <<>>)

\* ------------------------------------------------------------------------
\* Files, the repository and its remote
\* ------------------------------------------------------------------------

\* The files of the installation are handled as a record fs:
\*   program_dir  "absent", "plain" (a directory without .git) or "repo"
\*   branch_file  the content of branch.txt, None when the file is missing
\*   git_file     the content of git.txt, None when the file is missing
\*   origin       the URL of the remote origin, None when there is none

\* HoloMotionInstaller::repos_exist
repos_exist(fs) == fs.program_dir = "repo"

\* HoloMotionInstaller::assert_repos_exist
assert_repos_exist(fs) == IF repos_exist(fs) THEN Ok(<<>>) ELSE Err("NotInstalled", <<>>)

\* What can become of save_git_url: it saves the URL; create_dir_all fails;
\* fs::write fails to open git.txt; or fs::write fails after it has opened and
\* truncated git.txt.
SaveOutcomes == {"Saved", "NoDir", "NoFile", "Truncated"}

\* fs::create_dir_all(parent_dir) done
with_parent_dir(fs) == [fs EXCEPT !.program_dir = IF @ = "absent" THEN "plain" ELSE @]

\* HoloMotionInstaller::save_git_url; `saved` is its outcome.
save_git_url(fs, git_url, saved) ==
    IF saved = "Saved"
    THEN [result |-> Ok(<<>>), fs |-> [with_parent_dir(fs) EXCEPT !.git_file = Some(git_url)]]
    ELSE IF saved = "NoDir" THEN [result |-> Err("Io", <<>>), fs |-> fs]
    ELSE IF saved = "NoFile" THEN [result |-> Err("Io", <<>>), fs |-> with_parent_dir(fs)]
    ELSE [result |-> Err("Io", <<>>), fs |-> [with_parent_dir(fs) EXCEPT !.git_file = Some(<<>>)]]

\* A byte that is part of no UTF-8 text.
InvalidUtf8 == "0xFF"

\* fs::read_to_string: it fails on content that is not UTF-8.
read_to_string(content) ==
    IF \E i \in DOMAIN content : content[i] = InvalidUtf8 THEN Err("Io", <<>>) ELSE Ok(content)

\* content.trim() of git.txt, empty when the file is missing or cannot be read.
git_file_url(fs) ==
    IF fs.git_file = None \/ read_to_string(fs.git_file[1]).tag # "Ok" THEN <<>>
    ELSE trim(fs.git_file[1])

\* !self.git_file.exists() ||
\*     fs::read_to_string(&self.git_file).map(|s| s.trim().is_empty()).unwrap_or(true)
missing_or_empty(fs) ==
    \/ fs.git_file = None
    \/ IF read_to_string(fs.git_file[1]).tag = "Ok" THEN trim(fs.git_file[1]) = <<>> ELSE TRUE

\* HoloMotionInstaller::get_git_url
get_git_url(fs, provided_git_url, saved) ==
    IF git_file_url(fs) # <<>> THEN [result |-> Ok(git_file_url(fs)), fs |-> fs]
    ELSE IF provided_git_url # None
    THEN [result |-> Ok(provided_git_url[1]),
          fs |-> IF missing_or_empty(fs)
                 THEN save_git_url(fs, provided_git_url[1], saved).fs
                 ELSE fs]
    ELSE [result |-> Err("NoGitConfig", <<>>), fs |-> fs]

\* HoloMotionInstaller::get_current_remote_url; get_url is the status of
\* `git remote get-url origin`, which prints the URL followed by a newline.
get_current_remote_url(fs, get_url) ==
    IF ~repos_exist(fs) THEN Err("RepoMissing", <<>>)
    ELSE IF get_url = "NoExec" THEN Err("Io", <<>>)
    ELSE IF get_url = "Fail" \/ fs.origin = None THEN Err("RemoteUrl", <<>>)
    ELSE Ok(trim(fs.origin[1] \o <<"\n">>))

RECURSIVE trim_end_matches(_, _)
\* str::trim_end_matches
trim_end_matches(s, pat) ==
    IF Len(s) >= Len(pat) /\ SubSeq(s, Len(s) - Len(pat) + 1, Len(s)) = pat
    THEN trim_end_matches(SubSeq(s, 1, Len(s) - Len(pat)), pat)
    ELSE s

\* The closure normalize_url of ensure_correct_remote.
normalize_url(url) ==
    to_lowercase(trim_end_matches(trim_end_matches(trim(url), <<"/">>), <<".", "g", "i", "t">>))

\* `git remote set-url origin <expected_url>`
set_remote_url(fs, expected_url, set_url) ==
    IF set_url = "NoExec" THEN [result |-> Err("Io", <<>>), fs |-> fs]
    ELSE IF set_url = "Fail" THEN [result |-> Err("RemoteUrl", <<>>), fs |-> fs]
    ELSE [result |-> Ok(<<>>), fs |-> [fs EXCEPT !.origin = Some(expected_url)]]

\* ensure_correct_remote once both URLs are known.
compare_remote(fs, expected_url, current_url, set_url) ==
    IF current_url.tag # "Ok" THEN [result |-> Ok(<<>>), fs |-> fs]
    ELSE IF normalize_url(expected_url) # normalize_url(current_url.val)
    THEN set_remote_url(fs, expected_url, set_url)
    ELSE [result |-> Ok(<<>>), fs |-> fs]

\* ensure_correct_remote from the result of get_git_url on.
check_remote(expected, env) ==
    IF expected.result.tag # "Ok" THEN expected
    ELSE compare_remote(expected.fs, expected.result.val,
                        get_current_remote_url(expected.fs, env.get_url), env.set_url)

\* HoloMotionInstaller::ensure_correct_remote; env holds the outcome of the
\* write of git.txt and the statuses of the two git commands.
ensure_correct_remote(fs, provided_git_url, env) ==
    IF ~repos_exist(fs) THEN [result |-> Ok(<<>>), fs |-> fs]
    ELSE check_remote(get_git_url(fs, provided_git_url, env.saved), env)

\* HoloMotionInstaller::fetch_remote; env holds the statuses of `git fetch
\* origin --tags --force --prune-tags`, `git fetch --all --tags --force` and
\* `git tag -l`.
fetch_remote(fs, env) ==
    IF ~repos_exist(fs) THEN Err("RepoMissing", <<>>)
    ELSE IF env.fetch = "NoExec" THEN Err("Io", <<>>)
    ELSE IF env.fetch = "Fail" /\ env.fetch_all = "NoExec" THEN Err("Io", <<>>)
    ELSE IF env.fetch = "Fail" /\ env.fetch_all = "Fail" THEN Err("FetchFailed", <<>>)
    ELSE IF env.tag_list = "NoExec" THEN Err("Io", <<>>)
    ELSE Ok(<<>>)

\* The outcomes the environment can give to ensure_correct_remote.
RemoteEnvs == [saved : SaveOutcomes, get_url : CmdStatus, set_url : CmdStatus]

\* The outcomes the environment can give to fetch_remote.
FetchEnvs == [fetch : CmdStatus, fetch_all : CmdStatus, tag_list : {"NoExec", "Success"}]

\* What ensure_correct_remote can return and leave behind.
ensure_correct_remote_outcomes(fs, provided_git_url) ==
    {ensure_correct_remote(fs, provided_git_url, env) : env \in RemoteEnvs}

\* What fetch_remote can return.
fetch_remote_outcomes(fs) == {fetch_remote(fs, env) : env \in FetchEnvs}

\* ------------------------------------------------------------------------
\* HoloMotionInstaller::get_current_channel
\* ------------------------------------------------------------------------

\* The output of a command that was not run.
NotRun == [status |-> "NotRun", stdout |-> <<>>]

\* Outcomes of `git describe --tags`: the standard output ends with a newline.
DescribeOutcomes ==
    {[status |-> "NoExec", stdout |-> <<>>], [status |-> "Fail", stdout |-> <<>>]}
    \cup {[status |-> "Success", stdout |-> t \o <<"\n">>] :
            t \in {<<"v", "1", ".", "2", ".", "3">>, <<"1", ".", "2", ".", "3", "-", "2", "0", "2", "4", "0", "9", "0", "1">>, <<"v", "1", ".", "2", ".", "3", "-", "b", "e", "t", "a", ".", "1">>, <<"v", "1", ".", "2", ".", "3", "-", "5", "-", "g", "1", "a", "2", "b", "3", "c", "4">>, <<"n", "i", "g", "h", "t", "l", "y">>}}

\* What a call leaves: its result, the files after it, the steps it took and
\* the describe output it read.
call_outcome(result, fs, steps, describe) ==
    [result |-> result, fs |-> fs, steps |-> steps, describe |-> describe]

\* The describe outputs of a `git describe --tags` that succeeded, and for each
\* the version string get_current_channel and get_current_version make of it:
\* extract_version_from_git_describe of the trimmed output.
Described == {describe \in DescribeOutcomes : describe.status = "Success"}

DescribedVersion ==
    [describe \in Described |-> extract_version_from_git_describe(trim(describe.stdout)).val]

\* The choice with the last arm giving Master.
infer_channel_prerelease_master(parsed_version) ==
    IF parsed_version.tag = "Ok"
    THEN (IF is_date_version(parsed_version.val) THEN "Release" ELSE "Master")
    ELSE "Release"

\* The channel chosen for the parsed describe output.
infer_channel(parsed_version) ==
    IF parsed_version.tag = "Ok"
    THEN (IF is_date_version(parsed_version.val) THEN "Release"
          ELSE IF is_release(parsed_version.val) THEN "Master"
          ELSE "Release")
    ELSE "Release"

\* A write that reports success and leaves the marker as it was.
write_branch_file_nowhere(fs, channel, written) ==
    IF written /\ fs.program_dir # "absent"
    THEN [result |-> Ok(<<>>), fs |-> fs]
    ELSE [result |-> Err("Io", <<>>), fs |-> fs]

\* fs::write(&self.branch_file, channel.as_str()); `written` tells whether the
\* write succeeds.
write_branch_file(fs, channel, written) ==
    IF written /\ fs.program_dir # "absent"
    THEN [result |-> Ok(<<>>), fs |-> [fs EXCEPT !.branch_file = Some(Channel_as_str(channel))]]
    ELSE [result |-> Err("Io", <<>>), fs |-> fs]

\* The end of get_current_channel: the write of the marker and the result.
persist_channel(wrote, channel, steps, describe) ==
    call_outcome(IF wrote.result.tag = "Ok" THEN Ok(channel) ELSE wrote.result,
                 wrote.fs, steps, describe)

\* The channel get_current_channel infers from each describe output.
InferredChannel ==
    [describe \in Described |-> infer_channel(Version_parse(DescribedVersion[describe]))]

\* get_current_channel from the describe output on.
channel_of_describe(fs, steps, describe, written) ==
    IF describe.status = "NoExec" THEN call_outcome(Err("Io", <<>>), fs, steps, describe)
    ELSE IF describe.status = "Fail"
    THEN call_outcome(Err("DescribeFailed", <<>>), fs, steps, describe)
    ELSE persist_channel(write_branch_file(fs, InferredChannel[describe], written),
                         InferredChannel[describe],
                         Append(steps, "write_branch_file"), describe)

\* get_current_channel from `git describe --tags` on.
describe_channel(fs, steps) ==
    {channel_of_describe(fs, steps, describe, written) :
        describe \in DescribeOutcomes, written \in BOOLEAN}

\* get_current_channel from the result of fetch_remote on.
channel_after_fetch(fs, steps, fetched) ==
    IF fetched.tag # "Ok" THEN {call_outcome(fetched, fs, steps, NotRun)}
    ELSE describe_channel(fs, Append(steps, "git_describe"))

\* get_current_channel from the result of ensure_correct_remote on.
channel_after_remote(remote, steps) ==
    IF remote.result.tag # "Ok" THEN {call_outcome(remote.result, remote.fs, steps, NotRun)}
    ELSE UNION {channel_after_fetch(remote.fs, Append(steps, "fetch_remote"), fetched) :
                    fetched \in fetch_remote_outcomes(remote.fs)}

\* get_current_channel without a marker file.
infer_from_repository(fs, provided_git_url) ==
    IF assert_repos_exist(fs).tag # "Ok"
    THEN {call_outcome(assert_repos_exist(fs), fs, <<"assert_repos_exist">>, NotRun)}
    ELSE UNION {channel_after_remote(remote, <<"assert_repos_exist", "ensure_correct_remote">>) :
                    remote \in ensure_correct_remote_outcomes(fs, provided_git_url)}

\* get_current_channel with a marker file; `readable` tells whether
\* fs::read_to_string succeeds.
read_branch_file(fs, readable) ==
    call_outcome(IF readable THEN Channel_from_str(trim(fs.branch_file[1])) ELSE Err("Io", <<>>),
                 fs, <<"read_branch_file">>, NotRun)

\* get_current_channel without the test of the marker file.
get_current_channel_inferring(fs, provided_git_url) ==
    infer_from_repository(fs, provided_git_url)

\* HoloMotionInstaller::get_current_channel: the set of its possible outcomes.
get_current_channel(fs, provided_git_url) ==
    IF fs.branch_file # None THEN {read_branch_file(fs, readable) : readable \in BOOLEAN}
    ELSE infer_from_repository(fs, provided_git_url)

\* ------------------------------------------------------------------------
\* HoloMotionInstaller::get_current_version and get_latest_version as calls
\* ------------------------------------------------------------------------

\* The end of get_current_version: the check of the normalized text.
checked_version(version) ==
    IF Version_parse(version).tag = "Ok" THEN Ok(version) ELSE Err("MalformedVersion", version)

\* The result of get_current_version for each describe output.
CurrentVersion == [describe \in Described |-> checked_version(DescribedVersion[describe])]

\* get_current_version from the describe output on.
version_of_describe(fs, steps, describe) ==
    IF describe.status = "NoExec" THEN call_outcome(Err("Io", <<>>), fs, steps, describe)
    ELSE IF describe.status = "Fail"
    THEN call_outcome(Err("DescribeFailed", <<>>), fs, steps, describe)
    ELSE call_outcome(CurrentVersion[describe], fs, steps, describe)

\* get_current_version from the result of ensure_correct_remote on.
version_after_remote(remote, steps) ==
    IF remote.result.tag # "Ok" THEN {call_outcome(remote.result, remote.fs, steps, NotRun)}
    ELSE {version_of_describe(remote.fs, Append(steps, "git_describe"), describe) :
            describe \in DescribeOutcomes}

\* HoloMotionInstaller::get_current_version: the set of its possible outcomes.
get_current_version(fs, channel, provided_git_url) ==
    IF assert_repos_exist(fs).tag # "Ok"
    THEN {call_outcome(assert_repos_exist(fs), fs, <<"assert_repos_exist">>, NotRun)}
    ELSE UNION {version_after_remote(remote, <<"assert_repos_exist", "ensure_correct_remote">>) :
                    remote \in ensure_correct_remote_outcomes(fs, provided_git_url)}

\* Outcomes of `git ls-remote --tags --refs origin` for the installed program.
RepositoryLsRemote ==
    {[status |-> "NoExec", lines |-> <<>>], [status |-> "Fail", lines |-> <<>>],
     [status |-> "Success", lines |-> <<LsRemoteLine(<<"v", "1", ".", "2", ".", "3">>)>>],
     [status |-> "Success", lines |-> <<LsRemoteLine(<<"v", "1", ".", "2", ".", "3">>), LsRemoteLine(<<"v", "1", ".", "3", ".", "0">>)>>],
     [status |-> "Success", lines |-> <<LsRemoteLine(<<"n", "i", "g", "h", "t", "l", "y">>)>>]}

\* Outcomes of `git tag -l --sort=-version:refname` for the installed program.
RepositoryTagList ==
    {[status |-> "NoExec", lines |-> <<>>],
     [status |-> "Success", lines |-> <<>>],
     [status |-> "Success", lines |-> <<<<"v", "1", ".", "2", ".", "3">>>>]}

\* The results get_latest_version can give after its first three calls.
latest_version_results ==
    [channel \in Channel |->
        {get_latest_version(channel, Ok(<<>>), ls_remote, tag_list).result :
            ls_remote \in RepositoryLsRemote, tag_list \in RepositoryTagList}]

\* get_latest_version from the result of fetch_remote on.
latest_after_fetch(fs, channel, steps, fetched) ==
    IF fetched.tag # "Ok" THEN {call_outcome(fetched, fs, steps, NotRun)}
    ELSE {call_outcome(result, fs, Append(steps, "list_tags"), NotRun) :
            result \in latest_version_results[channel]}

\* get_latest_version from the result of ensure_correct_remote on.
latest_after_remote(remote, channel, steps) ==
    IF remote.result.tag # "Ok" THEN {call_outcome(remote.result, remote.fs, steps, NotRun)}
    ELSE UNION {latest_after_fetch(remote.fs, channel, Append(steps, "fetch_remote"), fetched) :
                    fetched \in fetch_remote_outcomes(remote.fs)}

\* HoloMotionInstaller::get_latest_version: the set of its possible outcomes.
latest_version_outcomes(fs, channel, provided_git_url) ==
    IF assert_repos_exist(fs).tag # "Ok"
    THEN {call_outcome(assert_repos_exist(fs), fs, <<"assert_repos_exist">>, NotRun)}
    ELSE UNION {latest_after_remote(remote, channel,
                                    <<"assert_repos_exist", "ensure_correct_remote">>) :
                    remote \in ensure_correct_remote_outcomes(fs, provided_git_url)}

\* ------------------------------------------------------------------------
\* HoloMotionInstaller::is_valid_git_url and update_git_url
\* ------------------------------------------------------------------------

\* The part of s after its first n characters.
drop(s, n) == SubSeq(s, n + 1, Len(s))

\* [^<sep>\s]+<sep>.+$ : a host of at least one character that is neither the
\* separator nor whitespace, the separator, and at least one more character,
\* none of them a newline.
host_and_path(rest, sep) ==
    \E k \in 2..(Len(rest) - 1) :
        /\ rest[k] = sep
        /\ \A i \in 1..(k - 1) : rest[i] # sep /\ rest[i] \notin Whitespace
        /\ \A i \in (k + 1)..Len(rest) : rest[i] # "\n"

\* One of the patterns ^<scheme>[^<sep>\s]+<sep>.+$
matches_scheme(url, scheme, sep) ==
    StartsWith(url, scheme) /\ host_and_path(drop(url, Len(scheme)), sep)

\* `patterns.iter().any(|pattern| pattern.is_match(url))`
matches_a_pattern(url) ==
    \/ matches_scheme(url, <<"h", "t", "t", "p", "s", ":", "/", "/">>, "/")
    \/ matches_scheme(url, <<"h", "t", "t", "p", ":", "/", "/">>, "/")
    \/ matches_scheme(url, <<"g", "i", "t", "@">>, ":")
    \/ matches_scheme(url, <<"s", "s", "h", ":", "/", "/", "g", "i", "t", "@">>, "/")
    \/ /\ StartsWith(url, <<"f", "i", "l", "e", ":", "/", "/">>)
       /\ Len(url) > 7
       /\ \A i \in 8..Len(url) : url[i] # "\n"

\* The indexes at which "://" occurs in url.
scheme_marks(url) == {i \in 1..(Len(url) - 2) : SubSeq(url, i, i + 2) = <<":", "/", "/">>}

\* The checks on protocol and rest, k being the index of the only "://".
protocol_check(protocol, rest) ==
    IF protocol \notin {<<"h", "t", "t", "p">>, <<"h", "t", "t", "p", "s">>, <<"s", "s", "h">>, <<"g", "i", "t">>, <<"f", "i", "l", "e">>} THEN FALSE
    ELSE IF protocol = <<"f", "i", "l", "e">> THEN rest # <<>>
    ELSE IF FirstIndex(rest, "/", 1) # 0 THEN FirstIndex(rest, "/", 1) > 1
    ELSE TRUE

\* The checks on a git@ address: parts[0] and parts[1] of url.split(':').
git_at_check(url, colon) ==
    IF colon = 0 THEN FALSE
    ELSE drop(url, colon) # <<>> /\ url[colon + 1] # ":"

\* is_valid_git_url after trimming.
valid_trimmed_url(url) ==
    IF url = <<>> THEN FALSE
    ELSE IF ~matches_a_pattern(url) THEN FALSE
    ELSE IF scheme_marks(url) # {}
    THEN (IF Cardinality(scheme_marks(url)) # 1 THEN FALSE
          ELSE protocol_check(SubSeq(url, 1, LeastOrZero(scheme_marks(url)) - 1),
                              drop(url, LeastOrZero(scheme_marks(url)) + 2)))
    ELSE IF StartsWith(url, <<"g", "i", "t", "@">>) THEN git_at_check(url, FirstIndex(url, ":", 1))
    ELSE TRUE

\* HoloMotionInstaller::is_valid_git_url
is_valid_git_url(url) == valid_trimmed_url(trim(url))

\* update_git_url after the write of git.txt.
update_remote(saved, new_git_url, set_url) ==
    IF saved.result.tag # "Ok" THEN saved
    ELSE IF repos_exist(saved.fs) THEN set_remote_url(saved.fs, new_git_url, set_url)
    ELSE saved

\* HoloMotionInstaller::update_git_url; env holds the result of the
\* connectivity test, the outcome of the write of git.txt and the status of
\* `git remote set-url`.
update_git_url(fs, new_git_url, env) ==
    IF ~is_valid_git_url(new_git_url) THEN [result |-> Err("InvalidUrl", new_git_url), fs |-> fs]
    ELSE IF ~env.connected THEN [result |-> Err("NotConnected", new_git_url), fs |-> fs]
    ELSE update_remote(save_git_url(fs, new_git_url, env.saved), new_git_url, env.set_url)

\* The outcomes the environment can give to update_git_url.
UpdateEnvs == [connected : BOOLEAN, saved : SaveOutcomes, set_url : CmdStatus]

update_git_url_outcomes(fs, new_git_url) ==
    {update_git_url(fs, new_git_url, env) : env \in UpdateEnvs}

\* ------------------------------------------------------------------------
\* HoloMotionInstaller::clean_installed, install, upgrade, check_status
\* ------------------------------------------------------------------------

\* The files once the program directory is removed.
removed(fs) == [program_dir |-> "absent", branch_file |-> None, git_file |-> None, origin |-> None]

\* HoloMotionInstaller::clean_installed: it succeeds, or one of its removals
\* fails, before or after the program directory is gone.
clean_installed(fs) ==
    {[result |-> Ok(<<>>), fs |-> removed(fs)],
     [result |-> Err("Io", <<>>), fs |-> fs],
     [result |-> Err("Io", <<>>), fs |-> removed(fs)]}

\* Outcomes of `git clone`: its status, and the git.txt the clone holds.
CloneOutcomes ==
    {[status |-> "NoExec", git_file |-> None], [status |-> "Fail", git_file |-> None],
     [status |-> "Success", git_file |-> None],
     [status |-> "Success", git_file |-> Some(<<" ", "\n">>)],
     [status |-> "Success", git_file |-> Some(<<"f", "i", "l", "e", ":", "/", "/", "a">>)]}

\* The files after a successful clone of git_url.
cloned(git_url, clone) ==
    [program_dir |-> "repo", branch_file |-> None, git_file |-> clone.git_file,
     origin |-> Some(git_url)]

\* The save after the clone made whether or not a URL was provided.
save_unprovided(fs, git_url, provided_git_url, steps) ==
    IF fs.git_file = None
    THEN {call_outcome(IF saved = "Saved" THEN Ok(git_url) ELSE Err("Io", <<>>),
                       save_git_url(fs, git_url, saved).fs, Append(steps, "save_git_url"), NotRun) :
            saved \in SaveOutcomes}
    ELSE {call_outcome(Ok(git_url), fs, steps, NotRun)}

\* install: the save of the provided URL after the clone.
save_provided(fs, git_url, provided_git_url, steps) ==
    IF provided_git_url # None /\ fs.git_file = None
    THEN {call_outcome(IF saved = "Saved" THEN Ok(git_url) ELSE Err("Io", <<>>),
                       save_git_url(fs, git_url, saved).fs, Append(steps, "save_git_url"), NotRun) :
            saved \in SaveOutcomes}
    ELSE {call_outcome(Ok(git_url), fs, steps, NotRun)}

\* install from `git clone` on.
install_cloned(fs, git_url, provided_git_url, steps, clone) ==
    IF clone.status = "NoExec" THEN {call_outcome(Err("Io", <<>>), fs, steps, NotRun)}
    ELSE IF clone.status = "Fail"
    THEN {call_outcome(Err("CloneFailed", git_url), fs, steps, NotRun)}
    ELSE save_provided(cloned(git_url, clone), git_url, provided_git_url, steps)

\* install from the result of clean_installed on.
install_cleaned(cleaned, git_url, provided_git_url, steps) ==
    IF cleaned.result.tag # "Ok" THEN {call_outcome(cleaned.result, cleaned.fs, steps, NotRun)}
    ELSE UNION {install_cloned(cleaned.fs, git_url, provided_git_url,
                               Append(steps, "git_clone"), clone) : clone \in CloneOutcomes}

\* install from the result of get_git_url on.
install_with_url(url, provided_git_url) ==
    IF url.result.tag # "Ok" THEN {call_outcome(url.result, url.fs, <<"get_git_url">>, NotRun)}
    ELSE UNION {install_cleaned(cleaned, url.result.val, provided_git_url,
                                <<"get_git_url", "clean_installed">>) :
                    cleaned \in clean_installed(url.fs)}

\* install up to the save of the provided URL: the set of possible outcomes.
install_clone(fs, provided_git_url) ==
    UNION {install_with_url(get_git_url(fs, provided_git_url, saved), provided_git_url) :
            saved \in SaveOutcomes}

\* install: fetch_remote()? followed by get_latest_version(..)?
install_latest(fs, channel, provided_git_url) ==
    UNION {IF fetched.tag # "Ok" THEN {call_outcome(fetched, fs, <<"fetch_remote">>, NotRun)}
           ELSE latest_version_outcomes(fs, channel, provided_git_url) :
                fetched \in fetch_remote_outcomes(fs)}

\* The version switch of install: `git checkout`, then `git reset --hard`.
install_switch(env) ==
    IF env.checkout = "NoExec" THEN [result |-> Err("Io", <<>>), steps |-> <<"checkout">>]
    ELSE IF env.checkout = "Success" THEN [result |-> Ok(<<>>), steps |-> <<"checkout">>]
    ELSE IF env.reset = "NoExec" THEN [result |-> Err("Io", <<>>), steps |-> <<"checkout", "reset">>]
    ELSE IF env.reset = "Success" THEN [result |-> Ok(<<>>), steps |-> <<"checkout", "reset">>]
    ELSE [result |-> Err("SwitchFailed", <<>>), steps |-> <<"checkout", "reset">>]

InstallSwitchEnvs == [checkout : CmdStatus, reset : CmdStatus]

InstallSwitchOutcomes == {install_switch(env) : env \in InstallSwitchEnvs}

\* The end of install and of upgrade: create_symlinks()?, fix_permissions()?
\* and the write of the marker.
finish_switch(fs, channel, failing) ==
    IF failing = "create_symlinks"
    THEN call_outcome(Err("Io", <<>>), fs, <<"create_symlinks">>, NotRun)
    ELSE IF failing = "fix_permissions"
    THEN call_outcome(Err("Io", <<>>), fs, <<"create_symlinks", "fix_permissions">>, NotRun)
    ELSE call_outcome(write_branch_file(fs, channel, failing # "write_branch_file").result,
                      write_branch_file(fs, channel, failing # "write_branch_file").fs,
                      <<"create_symlinks", "fix_permissions", "write_branch_file">>, NotRun)

\* The step of the end that fails, or "none" when none does.
FinishEnvs == {"create_symlinks", "fix_permissions", "write_branch_file", "none"}

finish_switch_outcomes(fs, channel) ==
    {finish_switch(fs, channel, failing) : failing \in FinishEnvs}

\* upgrade up to get_current_version: assert_repos_exist, ensure_correct_remote
\* and fetch_remote.
upgrade_after_remote(remote, steps) ==
    IF remote.result.tag # "Ok" THEN {call_outcome(remote.result, remote.fs, steps, NotRun)}
    ELSE {call_outcome(fetched, remote.fs, Append(steps, "fetch_remote"), NotRun) :
            fetched \in fetch_remote_outcomes(remote.fs)}

upgrade_prepare(fs, provided_git_url) ==
    IF assert_repos_exist(fs).tag # "Ok"
    THEN {call_outcome(assert_repos_exist(fs), fs, <<"assert_repos_exist">>, NotRun)}
    ELSE UNION {upgrade_after_remote(remote, <<"assert_repos_exist", "ensure_correct_remote">>) :
                    remote \in ensure_correct_remote_outcomes(fs, provided_git_url)}

\* HoloMotionInstaller::clean_git_state: `git reset --hard HEAD`, `git clean
\* -fd` and `git checkout .`, their results ignored; the untracked files
\* branch.txt and git.txt are removed unless the repository ignores them.
clean_git_state(fs) ==
    {[fs EXCEPT !.branch_file = IF keep_branch THEN @ ELSE None,
                !.git_file = IF keep_git THEN @ ELSE None] :
        keep_branch \in BOOLEAN, keep_git \in BOOLEAN}

\* The four strategies of upgrade, in the order of the code. A strategy whose
\* command cannot be run ends the function through `?` in the first two
\* strategies and in the fetch of the third.
upgrade_strategy4(env, steps) ==
    IF env.reset_tags = "Success"
    THEN [result |-> Ok(<<>>), steps |-> Append(steps, "reset_tags")]
    ELSE [result |-> Err("AllStrategiesFailed", <<>>), steps |-> Append(steps, "reset_tags")]

upgrade_strategy3(env, steps) ==
    IF env.fetch_all = "NoExec"
    THEN [result |-> Err("Io", <<>>), steps |-> Append(steps, "fetch_all_reset")]
    ELSE IF env.fetch_all = "Success" /\ env.reset_all = "Success"
    THEN [result |-> Ok(<<>>), steps |-> Append(steps, "fetch_all_reset")]
    ELSE upgrade_strategy4(env, Append(steps, "fetch_all_reset"))

upgrade_strategy2(env, steps) ==
    IF env.fetch_ref = "NoExec"
    THEN [result |-> Err("Io", <<>>), steps |-> Append(steps, "fetch_ref_reset")]
    ELSE IF env.fetch_ref = "Success" /\ env.reset_ref = "NoExec"
    THEN [result |-> Err("Io", <<>>), steps |-> Append(steps, "fetch_ref_reset")]
    ELSE IF env.fetch_ref = "Success" /\ env.reset_ref = "Success"
    THEN [result |-> Ok(<<>>), steps |-> Append(steps, "fetch_ref_reset")]
    ELSE upgrade_strategy3(env, Append(steps, "fetch_ref_reset"))

\* The cascade going from the checkout to the third strategy.
upgrade_switch_skipping(env) ==
    IF env.checkout = "NoExec" THEN [result |-> Err("Io", <<>>), steps |-> <<"checkout">>]
    ELSE IF env.checkout = "Success" THEN [result |-> Ok(<<>>), steps |-> <<"checkout">>]
    ELSE upgrade_strategy3(env, <<"checkout">>)

upgrade_switch(env) ==
    IF env.checkout = "NoExec" THEN [result |-> Err("Io", <<>>), steps |-> <<"checkout">>]
    ELSE IF env.checkout = "Success" THEN [result |-> Ok(<<>>), steps |-> <<"checkout">>]
    ELSE upgrade_strategy2(env, <<"checkout">>)

UpgradeSwitchEnvs ==
    [checkout : CmdStatus, fetch_ref : CmdStatus, reset_ref : CmdStatus,
     fetch_all : CmdStatus, reset_all : CmdStatus, reset_tags : CmdStatus]

UpgradeSwitchOutcomes == {upgrade_switch(env) : env \in UpgradeSwitchEnvs}

\* The files get_latest_version can leave: it changes them only through its
\* call of ensure_correct_remote.
latest_version_files(fs, provided_git_url) ==
    {remote.fs : remote \in ensure_correct_remote_outcomes(fs, provided_git_url)}

\* check_status from the result of get_current_version on: the files it leaves
\* after ensure_correct_remote, fetch_remote and get_latest_version.
status_after_version(version) ==
    IF version.result.tag # "Ok" THEN {version.fs}
    ELSE UNION {latest_version_files(remote.fs, None) :
                    remote \in ensure_correct_remote_outcomes(version.fs, None)}

\* check_status from the result of get_current_channel on.
status_after_channel(current) ==
    IF current.result.tag # "Ok" THEN {current.fs}
    ELSE UNION {status_after_version(version) :
                    version \in get_current_version(current.fs, current.result.val, None)}

\* HoloMotionInstaller::check_status: the files it can leave (it returns Ok).
check_status(fs) ==
    IF ~repos_exist(fs) THEN {fs}
    ELSE UNION {status_after_channel(current) : current \in get_current_channel(fs, None)}

\* ------------------------------------------------------------------------
\* Inputs
\* ------------------------------------------------------------------------

\* The longest ls-remote listing, the longest local tag listing, and the longest
\* string of the exhaustive part of the parser's inputs.
MaxRemoteTags == 3

MaxLocalTags == 2

MaxStrLen == 5

\* Tag names of the repository.
TagPool ==
    { <<"v", "1", ".", "0", ".", "0">>,
      <<"v", "1", ".", "1", ".", "0">>,
      <<"b", "a", "d", "-", "t", "a", "g">>,
      <<"v", "1", ".", "0", ".", "5">>,
      <<"v", "1", ".", "0", ".", "5", "+", "a">>,
      <<"v", "2", ".", "0", ".", "0", "-", "b", "e", "t", "a">>,
      <<"r", "e", "l", "e", "a", "s", "e", "/", "1", ".", "0", ".", "5", "-", "2", "0", "2", "4", "0", "9", "0", "1">> }

\* Sequences of distinct elements of S of length at most n (git lists a tag once).
Listings(S, n) ==
    {l \in UNION {[1..k -> S] : k \in 0..n} : \A i, j \in DOMAIN l : i # j => l[i] # l[j]}

\* Outcomes of `git ls-remote --tags --refs origin`.
LsRemoteOutcomes ==
    {[status |-> "NoExec", lines |-> <<>>], [status |-> "Fail", lines |-> <<>>]}
    \cup {[status |-> "Success", lines |-> [i \in DOMAIN l |-> LsRemoteLine(l[i])]] :
            l \in Listings(TagPool, MaxRemoteTags)}

\* Tag names the local repository may hold.
LocalTagPool ==
    { <<"v", "1", ".", "0", ".", "0">>, <<"v", "1", ".", "0", ".", "5">>, <<"v", "2", ".", "0", ".", "0", "-", "b", "e", "t", "a">> }

\* Outcomes of `git tag -l --sort=-version:refname`.
TagListOutcomes ==
    {[status |-> "NoExec", lines |-> <<>>], [status |-> "Fail", lines |-> <<>>]}
    \cup {[status |-> "Success", lines |-> l] : l \in Listings(LocalTagPool, MaxLocalTags)}

\* Outcomes of assert_repos_exist, ensure_correct_remote and fetch_remote.
PreOutcomes ==
    {Ok(<<>>), Err("NotInstalled", <<>>), Err("RemoteUrl", <<>>), Err("FetchFailed", <<>>)}

\* Strings handed to extract_version_from_git_describe: every string over a
\* small alphabet up to MaxStrLen characters, and version texts in decorations.
DescribeAlphabet == {"v", "1", "/", "-", "g"}

ShortDescribeStrings == UNION {[1..k -> DescribeAlphabet] : k \in 0..MaxStrLen}

RefsDecorations == {<<>>, RefsTagsPrefix}

PathDecorations == {<<>>, <<"r", "e", "l", "e", "a", "s", "e", "/">>, <<"a", "/", "b", "/">>}

VDecorations == {<<>>, <<"v">>}

DescribeSuffixes == {<<>>, <<"-", "5", "-", "g", "1", "a", "2", "b", "3", "c", "4">>, <<"-", "1", "2", "-", "g", "a", "b", "c">>}

VersionCores == {<<"4", ".", "2", ".", "2">>, <<"4", ".", "2", ".", "2", "-", "2", "0", "2", "4", "0", "9", "0", "1">>, <<"1", ".", "0", ".", "0">>, <<"1", "0", ".", "2", "0", ".", "3", "0", "-", "2", "0", "2", "4", "0", "1", "0", "1">>}

Decorated(refs, path, v, core, suffix) == refs \o path \o v \o core \o suffix

DecoratedStrings ==
    {Decorated(refs, path, v, core, suffix) :
        refs \in RefsDecorations, path \in PathDecorations, v \in VDecorations,
        core \in VersionCores, suffix \in DescribeSuffixes}

DescribeInputs == ShortDescribeStrings \cup DecoratedStrings


\* MAJOR.MINOR.PATCH followed by a suffix.
V(major, minor, patch, suffix) == major \o <<".">> \o minor \o <<".">> \o patch \o suffix

NumTexts ==
    { <<"0">>, <<"1">>, <<"0", "1">>, <<"1", "0">>, <<"6", "5", "5", "3", "6">>,
      <<"4", "2", "9", "4", "9", "6", "7", "2", "9", "5">>,
      <<"4", "2", "9", "4", "9", "6", "7", "2", "9", "6">>,
      <<ArabicDigit>> }

SmallNumTexts == {<<"0">>, <<"9">>, <<"4", "2", "9", "4", "9", "6", "7", "2", "9", "6">>}

Suffixes ==
    { <<>>,
      <<"-", "2", "0", "2", "4", "0", "9", "0", "1">>,
      <<"-", "2", "0", "2", "4", "0", "9", "0">>,
      <<"-", "2", "0", "2", "4", "0", "9", "0", "1", "1">>,
      <<"-", "b", "e", "t", "a">>,
      <<"-", "b", "e", "t", "a", ".", "1">>,
      <<"+", "a">>,
      <<"-", "r", "c", "+", "b">>,
      <<"-", ArabicDigit, ArabicDigit, ArabicDigit, ArabicDigit,
             ArabicDigit, ArabicDigit, ArabicDigit, ArabicDigit>>,
      <<"-", "2", "0", "2", "4", "0", "9", "0", ArabicDigit>>,
      <<"-">>, <<"+">>, <<"_", "x">>, <<"-", "a", "+">> }

\* Strings of the shape of a version, valid or nearly so.
ShapedStrings ==
    {V(a, b, c, suf) : a \in NumTexts, b \in SmallNumTexts, c \in SmallNumTexts, suf \in Suffixes}

\* Every string over a small alphabet up to MaxStrLen characters.
JunkStrings == UNION {[1..k -> {"1", ".", "-", "+", "a"}] : k \in 0..MaxStrLen}

ParseInputs == ShapedStrings \cup JunkStrings

\* Version texts whose comparisons are examined.
OrderInputs ==
    { <<"1", ".", "9", ".", "0">>, <<"1", ".", "1", "0", ".", "0">>, <<"2", ".", "0", ".", "0", "-", "b", "e", "t", "a">>, <<"1", ".", "0", ".", "0">>, <<"1", ".", "0", ".", "1">>,
      <<"1", ".", "0", ".", "0", "-", "2", "0", "2", "4", "0", "1", "0", "1">>, <<"1", ".", "0", ".", "0", "-", "2", "0", "2", "4", "0", "9", "0", "1">>, <<"1", ".", "0", ".", "0", "-", "a", "l", "p", "h", "a">>, <<"1", ".", "0", ".", "0", "-", "9">>, <<"1", ".", "0", ".", "0", "-", "1", "0">>, <<"1", ".", "0", ".", "0", "-", "Z">>,
      <<"1", ".", "0", ".", "0", "+", "a">>, <<"1", ".", "0", ".", "0", "+", "b">>, <<"0", "1", ".", "0", ".", "0">>, <<"6", "5", "5", "3", "6", ".", "0", ".", "0">>, <<"1", ".", "0", ".", "0", "-", "a", "l", "p", "h", "a", "+", "a">> }

\* ------------------------------------------------------------------------
\* State
\* ------------------------------------------------------------------------

VARIABLES
    pc,            \* the step the run is at
    channel,       \* the channel of get_latest_version
    pre,           \* outcome of the calls that precede the tag listings
    ls_remote,     \* outcome of `git ls-remote`
    tag_list,      \* outcome of `git tag -l`
    latest,        \* what get_latest_version returned, with its locals
    version_strs,  \* the strings handed to Version::parse
    versions,      \* the results of Version::parse
    ordering,      \* the comparisons of the parsed versions
    raw_version,   \* the string handed to extract_version_from_git_describe
    normalized,    \* the results of its successive applications
    program_dir,   \* the program directory: "absent", "plain" or "repo"
    branch_file,   \* the content of branch.txt, the channel marker
    git_file,      \* the content of git.txt
    origin,        \* the URL of the remote origin
    config,        \* the Config of the running invocation
    resolved,      \* the call that resolved the channel, when one was needed
    last_call,     \* the latest call of the invocation, with what it did
    frame,         \* current_version and latest_version of install and upgrade, and
                   \* the marker as upgrade found it on entry and git.txt as the
                   \* invocation found it
    outcome        \* what execute_action returned

describe_vars == <<raw_version, normalized>>

installer_vars == <<program_dir, branch_file, git_file, origin, config, resolved, last_call,
                    frame, outcome>>

vars == <<pc, channel, pre, ls_remote, tag_list, latest, version_strs, versions, ordering,
          describe_vars, installer_vars>>

\* No invocation is running.
NoConfig == [action |-> "None", channel |-> None, git_url |-> None]

NoFrame ==
    [current_version |-> None, latest_version |-> None, entry_marker |-> None,
     entry_git_file |-> None]

NoOutcome == [tag |-> "None", err |-> "", val |-> <<>>]

\* The installer has no files and is not running.
NoInstaller ==
    /\ program_dir = "absent"
    /\ branch_file = None
    /\ git_file = None
    /\ origin = None
    /\ config = NoConfig
    /\ resolved = None
    /\ last_call = None
    /\ frame = NoFrame
    /\ outcome = NoOutcome

\* extract_version_from_git_describe is not running.
NoDescribe == raw_version = <<>> /\ normalized = <<>>

\* Nothing returned yet.
NoLatest == early_return([tag |-> "None", err |-> "", val |-> <<>>])

NoCmd == [status |-> "NoExec", lines |-> <<>>]

\* --- latest-version resolution -------------------------------------------

\* A command that is never run has no outcome: it is fixed to NoCmd.
InitResolve ==
    /\ pc = "resolve"
    /\ channel \in Channel
    /\ pre \in PreOutcomes
    /\ ls_remote \in LsRemoteOutcomes
    /\ tag_list \in TagListOutcomes
    /\ (pre.tag # "Ok" => ls_remote = NoCmd)
    /\ (ls_remote.status = "NoExec" => tag_list = NoCmd)
    /\ latest = NoLatest
    /\ version_strs = <<>>
    /\ versions = <<>>
    /\ ordering = <<>>
    /\ NoDescribe
    /\ NoInstaller

GetLatestVersion ==
    /\ pc = "resolve"
    /\ latest' = get_latest_version(channel, pre, ls_remote, tag_list)
    /\ pc' = "done"
    /\ UNCHANGED <<channel, pre, ls_remote, tag_list, version_strs, versions, ordering>>
    /\ UNCHANGED describe_vars
    /\ UNCHANGED installer_vars

NextResolve == GetLatestVersion

SpecResolve == InitResolve /\ [][NextResolve]_vars

\* --- parsing and ordering ------------------------------------------------

InitVersion ==
    /\ pc = "parse"
    /\ version_strs \in {<<s>> : s \in ParseInputs}
                        \cup (OrderInputs \X OrderInputs \X OrderInputs)
    /\ versions = <<>>
    /\ ordering = <<>>
    /\ channel = "Release"
    /\ pre = Ok(<<>>)
    /\ ls_remote = NoCmd
    /\ tag_list = NoCmd
    /\ latest = NoLatest
    /\ NoDescribe
    /\ NoInstaller

ParseVersions ==
    /\ pc = "parse"
    /\ versions' = [i \in DOMAIN version_strs |-> Version_parse(version_strs[i])]
    /\ pc' = "parsed"
    /\ UNCHANGED <<channel, pre, ls_remote, tag_list, latest, version_strs, ordering>>
    /\ UNCHANGED describe_vars
    /\ UNCHANGED installer_vars

\* Every comparison the program can make between the parsed versions.
CompareVersions ==
    /\ pc = "parsed"
    /\ \A i \in DOMAIN versions : versions[i].tag = "Ok"
    /\ ordering' = [i \in DOMAIN versions |-> [j \in DOMAIN versions |->
            [cmp |-> Version_cmp(versions[i].val, versions[j].val),
             lt  |-> Version_lt(versions[i].val, versions[j].val),
             gt  |-> Version_gt(versions[i].val, versions[j].val),
             eq  |-> Version_eq(versions[i].val, versions[j].val)]]]
    /\ pc' = "compared"
    /\ UNCHANGED <<channel, pre, ls_remote, tag_list, latest, version_strs, versions>>
    /\ UNCHANGED describe_vars
    /\ UNCHANGED installer_vars

NextVersion == ParseVersions \/ CompareVersions

SpecVersion == InitVersion /\ [][NextVersion]_vars

\* --- normalization of describe output --------------------------------------

\* The variables of the other specifications, at rest.
ResolverIdle ==
    /\ channel = "Release"
    /\ pre = Ok(<<>>)
    /\ ls_remote = NoCmd
    /\ tag_list = NoCmd
    /\ latest = NoLatest
    /\ version_strs = <<>>
    /\ versions = <<>>
    /\ ordering = <<>>

InitDescribe ==
    /\ pc = "extract"
    /\ raw_version \in DescribeInputs
    /\ normalized = <<>>
    /\ ResolverIdle
    /\ NoInstaller

\* extract_version_from_git_describe(raw_version)
ExtractVersion ==
    /\ pc = "extract"
    /\ normalized' = <<extract_version_from_git_describe(raw_version)>>
    /\ pc' = "extracted"
    /\ UNCHANGED <<channel, pre, ls_remote, tag_list, latest, version_strs, versions, ordering,
                   raw_version>>
    /\ UNCHANGED installer_vars

\* extract_version_from_git_describe applied to its own result.
ExtractAgain ==
    /\ pc = "extracted"
    /\ normalized[1].tag = "Ok"
    /\ normalized' = Append(normalized, extract_version_from_git_describe(normalized[1].val))
    /\ pc' = "extracted_again"
    /\ UNCHANGED <<channel, pre, ls_remote, tag_list, latest, version_strs, versions, ordering,
                   raw_version>>
    /\ UNCHANGED installer_vars

NextDescribe == ExtractVersion \/ ExtractAgain

SpecDescribe == InitDescribe /\ [][NextDescribe]_vars

\* --- invocations of the installer -------------------------------------------

\* enum Action
Action ==
    {"GetCurrentChannel", "GetCurrentVersion", "GetLatestVersion", "Install", "Upgrade",
     "Uninstall", "Launch", "CreateDesktop", "RemoveDesktop", "DebugTags", "Status",
     "ForceRefresh", "UpdateGitUrl"}

\* The actions that touch neither the files of the model nor the remote.
LocalActions == {"Launch", "CreateDesktop", "RemoveDesktop", "DebugTags", "ForceRefresh"}

\* Contents of branch.txt found at the start.
MarkerContents == {<<"m", "a", "s", "t", "e", "r">>, <<" ", "R", "e", "l", "e", "a", "s", "e", "\n">>, <<"b", "e", "t", "a">>}

\* Contents of git.txt found at the start.
GitFileContents ==
    {<<" ", "\n">>, <<"f", "i", "l", "e", ":", "/", "/", "a", "\n">>,
     <<"f", "i", "l", "e", ":", "/", "/", "a", "/", InvalidUtf8, "\n">>}

\* The URL of the remote origin found at the start: the URL of git.txt up to
\* its ".git", and not the URL of --git-url.
OriginUrls == {<<"f", "i", "l", "e", ":", "/", "/", "a", ".", "g", "i", "t">>}

\* The URL of --git-url, and the URLs of --update-git-url.
ProvidedUrl == <<"f", "i", "l", "e", ":", "/", "/", "b">>

UpdateUrls == {ProvidedUrl, <<"b">>}

\* Config::from_matches: --update-git-url always comes with a URL.
Configs ==
    {c \in [action : Action, channel : {None} \cup {Some(ch) : ch \in Channel},
            git_url : {None} \cup {Some(u) : u \in UpdateUrls}] :
        /\ c.action = "UpdateGitUrl" => c.git_url # None
        /\ c.action # "UpdateGitUrl" => c.git_url \in {None, Some(ProvidedUrl)}}

\* The files as a record, and the assignment of a record to the files.
FS == [program_dir |-> program_dir, branch_file |-> branch_file, git_file |-> git_file,
       origin |-> origin]

SetFS(fs) ==
    /\ program_dir' = fs.program_dir
    /\ branch_file' = fs.branch_file
    /\ git_file' = fs.git_file
    /\ origin' = fs.origin

\* The files an invocation can find: branch.txt and git.txt lie in the program
\* directory, and a repository has a remote origin.
InitialFiles ==
    {fs \in [program_dir : {"absent", "plain", "repo"},
             branch_file : {None} \cup {Some(c) : c \in MarkerContents},
             git_file : {None} \cup {Some(c) : c \in GitFileContents},
             origin : {None} \cup {Some(u) : u \in OriginUrls}] :
        /\ fs.program_dir = "absent" => fs.branch_file = None /\ fs.git_file = None
        /\ fs.program_dir = "repo" <=> fs.origin # None}

InitInstaller ==
    /\ pc = "idle"
    /\ \E fs \in InitialFiles :
          /\ program_dir = fs.program_dir
          /\ branch_file = fs.branch_file
          /\ git_file = fs.git_file
          /\ origin = fs.origin
    /\ config = NoConfig
    /\ resolved = None
    /\ last_call = None
    /\ frame = NoFrame
    /\ outcome = NoOutcome
    /\ ResolverIdle
    /\ NoDescribe

\* What is kept of a call: the function, the marker before and after it, the
\* steps it took, the describe output it read and its result.
call_entry(fn, out) ==
    [fn |-> fn, before |-> branch_file, after |-> out.fs.branch_file, steps |-> out.steps,
     describe |-> out.describe, result |-> out.result]

\* A call made with `?`: an error ends execute_action, success goes on at next.
Returns(fn, out, next) ==
    /\ SetFS(out.fs)
    /\ last_call' = Some(call_entry(fn, out))
    /\ pc' = IF out.result.tag = "Ok" THEN next ELSE "end"
    /\ outcome' = IF out.result.tag # "Ok" THEN out.result
                  ELSE IF next = "end" THEN Ok(<<>>)
                  ELSE outcome

\* main: the process with its Config; execute_action starts with kill_process
\* when --kill is given, whose `kill` command may fail to run.
Start ==
    /\ pc = "idle"
    /\ config' \in Configs
    /\ \E kill \in {"NotAsked", "Ran", "NoExec"} :
          /\ pc' = IF kill = "NoExec" THEN "end" ELSE "channel"
          /\ outcome' = IF kill = "NoExec" THEN Err("Io", <<>>) ELSE NoOutcome
    /\ resolved' = None
    /\ last_call' = None
    /\ frame' = [NoFrame EXCEPT !.entry_git_file = Some(git_file)]
    /\ UNCHANGED <<channel, pre, ls_remote, tag_list, latest, version_strs, versions, ordering,
                   describe_vars, program_dir, branch_file, git_file, origin>>

\* execute_action: config.channel, or get_current_channel(..), or Release.
ResolveChannel ==
    /\ pc = "channel"
    /\ IF config.channel # None
       THEN /\ channel' = config.channel[1]
            /\ resolved' = None
            /\ UNCHANGED <<program_dir, branch_file, git_file, origin>>
       ELSE \E out \in get_current_channel(FS, config.git_url) :
                /\ channel' = IF out.result.tag = "Ok" THEN out.result.val ELSE "Release"
                /\ SetFS(out.fs)
                /\ resolved' = Some(call_entry("get_current_channel", out))
    /\ pc' = "dispatch"
    /\ UNCHANGED <<pre, ls_remote, tag_list, latest, version_strs, versions, ordering,
                   describe_vars, config, last_call, frame, outcome>>

\* Action::GetCurrentChannel
DoGetCurrentChannel ==
    /\ pc = "dispatch"
    /\ config.action = "GetCurrentChannel"
    /\ \E out \in get_current_channel(FS, config.git_url) :
          Returns("get_current_channel", out, "end")
    /\ UNCHANGED <<channel, pre, ls_remote, tag_list, latest, version_strs, versions, ordering,
                   describe_vars, config, resolved, frame>>

\* Action::GetCurrentVersion
DoGetCurrentVersion ==
    /\ pc = "dispatch"
    /\ config.action = "GetCurrentVersion"
    /\ \E out \in get_current_version(FS, channel, config.git_url) :
          Returns("get_current_version", out, "end")
    /\ UNCHANGED <<channel, pre, ls_remote, tag_list, latest, version_strs, versions, ordering,
                   describe_vars, config, resolved, frame>>

\* Action::GetLatestVersion
DoGetLatestVersion ==
    /\ pc = "dispatch"
    /\ config.action = "GetLatestVersion"
    /\ \E out \in latest_version_outcomes(FS, channel, config.git_url) :
          Returns("get_latest_version", out, "end")
    /\ UNCHANGED <<channel, pre, ls_remote, tag_list, latest, version_strs, versions, ordering,
                   describe_vars, config, resolved, frame>>

\* install, up to the save of the provided URL.
InstallClone ==
    /\ pc = "dispatch"
    /\ config.action = "Install"
    /\ \E out \in install_clone(FS, config.git_url) :
          Returns("install_clone", out, "install_latest")
    /\ UNCHANGED <<channel, pre, ls_remote, tag_list, latest, version_strs, versions, ordering,
                   describe_vars, config, resolved, frame>>

\* install: fetch_remote and get_latest_version.
InstallLatestVersion ==
    /\ pc = "install_latest"
    /\ \E out \in install_latest(FS, channel, config.git_url) :
          /\ Returns("get_latest_version", out, "install_switch")
          /\ frame' = [frame EXCEPT !.latest_version =
                          IF out.result.tag = "Ok" THEN Some(out.result.val) ELSE None]
    /\ UNCHANGED <<channel, pre, ls_remote, tag_list, latest, version_strs, versions, ordering,
                   describe_vars, config, resolved>>

\* install: the switch to latest_version.
InstallSwitch ==
    /\ pc = "install_switch"
    /\ \E switch \in InstallSwitchOutcomes :
          Returns("switch_version", call_outcome(switch.result, FS, switch.steps, NotRun),
                  "install_finish")
    /\ UNCHANGED <<channel, pre, ls_remote, tag_list, latest, version_strs, versions, ordering,
                   describe_vars, config, resolved, frame>>

\* What can become of the launch after install and upgrade: it is asked for
\* with --launch, and only tried when the operation succeeded.
launches(finished) ==
    IF finished.result.tag = "Ok" THEN {"NotAsked", "Launched", "Failed"} ELSE {"NotAsked"}

\* The launch after install and upgrade, when --launch is given.
launch_after(finished, launched) ==
    IF finished.result.tag = "Ok" /\ launched = "Failed"
    THEN call_outcome(Err("LaunchFailed", <<>>), finished.fs, Append(finished.steps, "launch"),
                      NotRun)
    ELSE IF finished.result.tag = "Ok" /\ launched = "Launched"
    THEN call_outcome(finished.result, finished.fs, Append(finished.steps, "launch"), NotRun)
    ELSE finished

\* install: symlinks, permissions, the marker, and the launch.
InstallFinish ==
    /\ pc = "install_finish"
    /\ \E finished \in finish_switch_outcomes(FS, channel) :
          \E launched \in launches(finished) :
              Returns("finish", launch_after(finished, launched), "end")
    /\ UNCHANGED <<channel, pre, ls_remote, tag_list, latest, version_strs, versions, ordering,
                   describe_vars, config, resolved, frame>>

\* upgrade: assert_repos_exist, ensure_correct_remote, fetch_remote.
UpgradePrepare ==
    /\ pc = "dispatch"
    /\ config.action = "Upgrade"
    /\ \E out \in upgrade_prepare(FS, config.git_url) :
          Returns("upgrade_prepare", out, "upgrade_current")
    /\ frame' = [frame EXCEPT !.entry_marker = Some(branch_file)]
    /\ UNCHANGED <<channel, pre, ls_remote, tag_list, latest, version_strs, versions, ordering,
                   describe_vars, config, resolved>>

\* upgrade: get_current_version.
UpgradeCurrentVersion ==
    /\ pc = "upgrade_current"
    /\ \E out \in get_current_version(FS, channel, config.git_url) :
          /\ Returns("get_current_version", out, "upgrade_latest")
          /\ frame' = [frame EXCEPT !.current_version =
                          IF out.result.tag = "Ok" THEN Some(out.result.val) ELSE None]
    /\ UNCHANGED <<channel, pre, ls_remote, tag_list, latest, version_strs, versions, ordering,
                   describe_vars, config, resolved>>

\* upgrade: get_latest_version.
UpgradeLatestVersion ==
    /\ pc = "upgrade_latest"
    /\ \E out \in latest_version_outcomes(FS, channel, config.git_url) :
          /\ Returns("get_latest_version", out, "upgrade_switch")
          /\ frame' = [frame EXCEPT !.latest_version =
                          IF out.result.tag = "Ok" THEN Some(out.result.val) ELSE None]
    /\ UNCHANGED <<channel, pre, ls_remote, tag_list, latest, version_strs, versions, ordering,
                   describe_vars, config, resolved>>

\* upgrade after clean_git_state: fix_permissions and the four strategies.
upgrade_switched(fs) ==
    {call_outcome(Err("Io", <<>>), fs, <<"clean_git_state", "fix_permissions">>, NotRun)}
    \cup {call_outcome(switch.result, fs,
                       <<"clean_git_state", "fix_permissions">> \o switch.steps, NotRun) :
            switch \in UpgradeSwitchOutcomes}

\* An upgrade that cleans the git state before it compares the versions.
up_to_date_cleaning(fs) ==
    call_outcome(Ok(<<>>), [fs EXCEPT !.branch_file = None], <<"clean_git_state">>, NotRun)

\* upgrade when current_version == latest_version: `return Ok(())`.
up_to_date(fs) == call_outcome(Ok(<<>>), fs, <<>>, NotRun)

\* upgrade: nothing to do when the versions are equal (the launch follows when
\* --launch is given); otherwise the cleaning and the switch to latest_version.
UpgradeSwitch ==
    /\ pc = "upgrade_switch"
    /\ IF frame.current_version = frame.latest_version
       THEN \E launched \in launches(up_to_date(FS)) :
                Returns("up_to_date", launch_after(up_to_date(FS), launched), "end")
       ELSE \E fs \in clean_git_state(FS) :
                \E switched \in upgrade_switched(fs) :
                    Returns("switch_version", switched, "upgrade_finish")
    /\ UNCHANGED <<channel, pre, ls_remote, tag_list, latest, version_strs, versions, ordering,
                   describe_vars, config, resolved, frame>>

\* upgrade: symlinks, permissions, the marker, and the launch.
UpgradeFinish ==
    /\ pc = "upgrade_finish"
    /\ \E finished \in finish_switch_outcomes(FS, channel) :
          \E launched \in launches(finished) :
              Returns("finish", launch_after(finished, launched), "end")
    /\ UNCHANGED <<channel, pre, ls_remote, tag_list, latest, version_strs, versions, ordering,
                   describe_vars, config, resolved, frame>>

\* Action::Uninstall
DoUninstall ==
    /\ pc = "dispatch"
    /\ config.action = "Uninstall"
    /\ \E cleaned \in clean_installed(FS) :
          Returns("uninstall", call_outcome(cleaned.result, cleaned.fs, <<"clean_installed">>,
                                            NotRun), "end")
    /\ UNCHANGED <<channel, pre, ls_remote, tag_list, latest, version_strs, versions, ordering,
                   describe_vars, config, resolved, frame>>

\* Action::Status
DoStatus ==
    /\ pc = "dispatch"
    /\ config.action = "Status"
    /\ \E fs \in check_status(FS) :
          Returns("check_status", call_outcome(Ok(<<>>), fs, <<>>, NotRun), "end")
    /\ UNCHANGED <<channel, pre, ls_remote, tag_list, latest, version_strs, versions, ordering,
                   describe_vars, config, resolved, frame>>

\* Action::UpdateGitUrl
DoUpdateGitUrl ==
    /\ pc = "dispatch"
    /\ config.action = "UpdateGitUrl"
    /\ \E updated \in update_git_url_outcomes(FS, config.git_url[1]) :
          Returns("update_git_url", call_outcome(updated.result, updated.fs, <<>>, NotRun), "end")
    /\ UNCHANGED <<channel, pre, ls_remote, tag_list, latest, version_strs, versions, ordering,
                   describe_vars, config, resolved, frame>>

\* Action::Launch, CreateDesktop, RemoveDesktop, DebugTags and ForceRefresh:
\* they return Ok or an error and leave the files of the model alone.
DoLocalAction ==
    /\ pc = "dispatch"
    /\ config.action \in LocalActions
    /\ \E result \in {Ok(<<>>), Err("Io", <<>>)} :
          Returns("local_action", call_outcome(result, FS, <<>>, NotRun), "end")
    /\ UNCHANGED <<channel, pre, ls_remote, tag_list, latest, version_strs, versions, ordering,
                   describe_vars, config, resolved, frame>>

NextInstaller ==
    \/ Start
    \/ ResolveChannel
    \/ DoGetCurrentChannel
    \/ DoGetCurrentVersion
    \/ DoGetLatestVersion
    \/ InstallClone
    \/ InstallLatestVersion
    \/ InstallSwitch
    \/ InstallFinish
    \/ UpgradePrepare
    \/ UpgradeCurrentVersion
    \/ UpgradeLatestVersion
    \/ UpgradeSwitch
    \/ UpgradeFinish
    \/ DoUninstall
    \/ DoStatus
    \/ DoUpdateGitUrl
    \/ DoLocalAction

SpecInstaller == InitInstaller /\ [][NextInstaller]_vars

\* ------------------------------------------------------------------------
\* Properties of latest-version resolution (SpecResolve)
\* ------------------------------------------------------------------------

\* get_latest_version has returned after filtering both listings.
Resolved == pc = "done" /\ latest.reached

\* The tag a line of the ls-remote listing names.
TagOfLine(line) == CHOOSE t \in TagPool : LsRemoteLine(t) = line

\* The candidate tag names of the two listings.
CandidatesA ==
    IF ls_remote.status = "Success"
    THEN [i \in DOMAIN ls_remote.lines |-> TagOfLine(ls_remote.lines[i])]
    ELSE <<>>

CandidatesB == IF tag_list.status = "Success" THEN tag_list.lines ELSE <<>>

\* The candidate after normalization and parsing.
Parsed(tag) == Version_parse(extract_version_from_git_describe(tag).val)

EightAsciiDigits(pr) == Len(pr) = 8 /\ \A i \in DOMAIN pr : pr[i] \in AsciiDigit

\* Whether a parsed candidate survives on a channel.
Survives(ch, parsed) ==
    /\ parsed.tag = "Ok"
    /\ \/ ch = "Master"
       \/ parsed.val.pre_release = None
       \/ EightAsciiDigits(parsed.val.pre_release[1])

\* The indexes of the candidates that survive.
SurvivingIdx(ch, cands) == {i \in DOMAIN cands : Survives(ch, Parsed(cands[i]))}

\* The surviving candidates of a listing, parsed, in the listing's order.
Survivors(ch, cands) ==
    LET parsed == [i \in DOMAIN cands |-> Parsed(cands[i])]
        idx    == {i \in DOMAIN cands : Survives(ch, parsed[i])}
    IN  [k \in 1..Cardinality(idx) |->
            parsed[CHOOSE i \in idx : Cardinality({j \in idx : j <= i}) = k].val]

\* C1: whenever get_latest_version succeeds, the string it returns is, character
\* for character, one of the raw candidate tag names of the two listings.
C1_ReturnsRawCandidate ==
    (pc = "done" /\ latest.result.tag = "Ok")
        => latest.result.val \in Range(CandidatesA) \cup Range(CandidatesB)

\* C2: resolution works on one of the two filtered lists, chosen wholesale: the
\* first when it has at least as many survivors as the second, otherwise the
\* second; the version returned is an element of the chosen list that no
\* element of that list exceeds.
C2_WholesaleSelection ==
    Resolved =>
        LET sa     == Survivors(channel, CandidatesA)
            sb     == Survivors(channel, CandidatesB)
            chosen == IF Len(sa) >= Len(sb) THEN sa ELSE sb
        IN  /\ latest.versions = chosen
            /\ latest.result.tag = "Ok" =>
                 \E i \in DOMAIN chosen :
                    /\ chosen[i].raw = latest.result.val
                    /\ \A j \in DOMAIN chosen : Version_cmp(chosen[j], chosen[i]) # "Greater"

\* A tie (one survivor each): the first list is used although the second holds
\* the higher version.
C2_Witness ==
    /\ Resolved
    /\ channel = "Master"
    /\ CandidatesA = <<<<"v", "1", ".", "0", ".", "0">>>>
    /\ CandidatesB = <<<<"v", "1", ".", "0", ".", "5">>>>
    /\ latest.result = Ok(<<"1", ".", "0", ".", "0">>)

\* C3: each filtered list holds exactly the candidates that normalize and parse
\* and pass the channel filter (Release: no pre_release, or an 8-digit date;
\* Master: every parsed version), in order; a candidate that does not parse is
\* skipped and never ends the resolution.
C3_SurvivingSet ==
    /\ Resolved =>
         /\ latest.versions_method1 = Survivors(channel, CandidatesA)
         /\ latest.versions_method2 = Survivors(channel, CandidatesB)
    /\ (pc = "done" /\ pre.tag = "Ok" /\ ls_remote.status # "NoExec"
                    /\ tag_list.status # "NoExec") => latest.reached

\* On Release an unparsable tag and a -beta tag are dropped, the date tag stays.
C3_Witness ==
    /\ Resolved
    /\ channel = "Release"
    /\ CandidatesA = <<<<"b", "a", "d", "-", "t", "a", "g">>, <<"v", "2", ".", "0", ".", "0", "-", "b", "e", "t", "a">>, <<"r", "e", "l", "e", "a", "s", "e", "/", "1", ".", "0", ".", "5", "-", "2", "0", "2", "4", "0", "9", "0", "1">>>>
    /\ Len(latest.versions_method1) = 1
    /\ latest.versions_method1[1].raw = <<"1", ".", "0", ".", "5", "-", "2", "0", "2", "4", "0", "9", "0", "1">>

\* C4: resolution fails with the "no valid versions" error for the channel
\* exactly when both filtered sets are empty; otherwise it returns a non-empty
\* string; it never panics.
C4_EmptyIffError ==
    /\ pc = "done" => latest.result.tag \in {"Ok", "Err"}
    /\ (pc = "done" /\ latest.result.err = "NoValidVersions") => latest.reached
    /\ Resolved =>
         LET empty == /\ SurvivingIdx(channel, CandidatesA) = {}
                      /\ SurvivingIdx(channel, CandidatesB) = {}
         IN  /\ empty => latest.result = Err("NoValidVersions", Channel_as_str(channel))
             /\ ~empty => latest.result.tag = "Ok" /\ latest.result.val # <<>>

\* Only unusable tags on Release: the error.
C4_Witness ==
    /\ Resolved
    /\ channel = "Release"
    /\ CandidatesA = <<<<"b", "a", "d", "-", "t", "a", "g">>, <<"v", "2", ".", "0", ".", "0", "-", "b", "e", "t", "a">>>>
    /\ tag_list = [status |-> "Success", lines |-> <<>>]
    /\ latest.result.err = "NoValidVersions"

\* ------------------------------------------------------------------------
\* Properties of Version::parse and the ordering (SpecVersion)
\* ------------------------------------------------------------------------

\* Three versions were parsed and compared.
Compared == pc = "compared" /\ Len(versions) = 3

\* The numeric order of two u32 values.
NumLess(x, y) == x[1] < y[1] \/ (x[1] = y[1] /\ x[2] < y[2])

NumTriple(v) == <<v.major, v.minor, v.patch>>

\* The first of major, minor, patch in which two versions differ, or 0.
FirstDiff(a, b) ==
    IF NumTriple(a) = NumTriple(b) THEN 0
    ELSE CHOOSE k \in 1..3 :
            /\ NumTriple(a)[k] # NumTriple(b)[k]
            /\ \A m \in 1..(k - 1) : NumTriple(a)[m] = NumTriple(b)[m]

\* a is before b in the lexicographic order of byte sequences.
LexLess(a, b) ==
    \E k \in 1..Len(b) :
        /\ k <= Len(a) + 1
        /\ SubSeq(a, 1, k - 1) = SubSeq(b, 1, k - 1)
        /\ (k = Len(a) + 1 \/ a[k] < b[k])

\* The comparison the claim describes for numbers that differ, or for equal
\* numbers and two pre_release strings.
DescribedCmp(a, b) ==
    IF FirstDiff(a, b) # 0
    THEN (IF NumLess(NumTriple(a)[FirstDiff(a, b)], NumTriple(b)[FirstDiff(a, b)])
          THEN "Less" ELSE "Greater")
    ELSE IF Utf8(a.pre_release[1]) = Utf8(b.pre_release[1]) THEN "Equal"
    ELSE IF LexLess(Utf8(a.pre_release[1]), Utf8(b.pre_release[1])) THEN "Less"
    ELSE "Greater"

\* C5: the comparison is decided by major, then minor, then patch, numerically;
\* when all three are equal and both versions have a pre_release, by the
\* byte-wise lexicographic order of the pre_release strings, date or not.
\* So 1.10.0 > 1.9.0 and 2.0.0-beta > 1.9.0.
C5_ComparisonOrder ==
    Compared =>
        \A i, j \in 1..3 :
            LET a == versions[i].val
                b == versions[j].val
            IN  /\ (FirstDiff(a, b) # 0 \/ (a.pre_release # None /\ b.pre_release # None))
                      => ordering[i][j].cmp = DescribedCmp(a, b)
                /\ (version_strs[i] = <<"1", ".", "1", "0", ".", "0">> /\ version_strs[j] = <<"1", ".", "9", ".", "0">>)
                      => ordering[i][j].cmp = "Greater"
                /\ (version_strs[i] = <<"2", ".", "0", ".", "0", "-", "b", "e", "t", "a">> /\ version_strs[j] = <<"1", ".", "9", ".", "0">>)
                      => ordering[i][j].cmp = "Greater"

\* 1.0.0-9 against 1.0.0-10 (bytes: "9" after "1"), and 1.10.0 against both.
C5_Witness ==
    /\ Compared
    /\ version_strs = <<<<"1", ".", "0", ".", "0", "-", "9">>, <<"1", ".", "0", ".", "0", "-", "1", "0">>, <<"1", ".", "1", "0", ".", "0">>>>
    /\ ordering[1][2].cmp = "Greater"
    /\ ordering[3][1].cmp = "Greater"

\* C6: with equal major, minor and patch, a version without pre_release is
\* strictly greater than one with a pre_release, an 8-digit date included.
C6_ReleaseAbovePreRelease ==
    Compared =>
        \A i, j \in 1..3 :
            LET a == versions[i].val
                b == versions[j].val
            IN  (FirstDiff(a, b) = 0 /\ a.pre_release = None /\ b.pre_release # None)
                    => /\ ordering[i][j].cmp = "Greater"
                       /\ ordering[i][j].gt
                       /\ ordering[j][i].cmp = "Less"
                       /\ ordering[j][i].lt

\* 1.0.0 against the date build 1.0.0-20240901 and against 1.0.0-alpha.
C6_Witness ==
    /\ Compared
    /\ version_strs = <<<<"1", ".", "0", ".", "0">>, <<"1", ".", "0", ".", "0", "-", "2", "0", "2", "4", "0", "9", "0", "1">>, <<"1", ".", "0", ".", "0", "-", "a", "l", "p", "h", "a">>>>
    /\ ordering[1][2].cmp = "Greater"
    /\ ordering[1][3].cmp = "Greater"

\* C7: the ordering is a total order on parsed versions: exactly one of a < b,
\* a == b, a > b holds (== being the derived equality of Version), it is
\* antisymmetric, and it is transitive.
C7_TotalOrder ==
    Compared =>
        /\ \A i, j \in 1..3 :
              /\ Cardinality({r \in {"lt", "eq", "gt"} : ordering[i][j][r]}) = 1
              /\ (ordering[i][j].cmp # "Greater" /\ ordering[j][i].cmp # "Greater")
                    => ordering[i][j].eq
        /\ \A i, j, k \in 1..3 :
              (ordering[i][j].cmp # "Greater" /\ ordering[j][k].cmp # "Greater")
                    => ordering[i][k].cmp # "Greater"

\* The text of a version without its +build part.
WithoutBuild(s) == IF FirstIndex(s, "+", 1) = 0 THEN s ELSE SubSeq(s, 1, FirstIndex(s, "+", 1) - 1)

\* C8: two parsed versions that differ only in their +build part compare Equal
\* and are equal under the equality of Version.
C8_BuildMetadataIgnored ==
    Compared =>
        \A i, j \in 1..3 :
            WithoutBuild(version_strs[i]) = WithoutBuild(version_strs[j])
                => ordering[i][j].cmp = "Equal" /\ ordering[i][j].eq

\* One string was handed to Version::parse.
ParsedOne == pc # "parse" /\ Len(version_strs) = 1

\* Division of a u32 value by ten.
DivTen(x) ==
    [q |-> <<x[1] \div 10, ((x[1] % 10) * Limb + x[2]) \div 10>>,
     r |-> ((x[1] % 10) * Limb + x[2]) % 10]

RECURSIVE Digits(_)
Digits(x) == IF x = <<0, 0>> THEN <<>> ELSE Digits(DivTen(x).q) \o <<DigitSeq[DivTen(x).r + 1]>>

\* The decimal numeral of a u32 value.
Decimal(x) == IF x = <<0, 0>> THEN <<"0">> ELSE Digits(x)

RECURSIVE StripZeros(_)
\* A numeral without its leading zeros.
StripZeros(s) == IF Len(s) > 1 /\ Head(s) = "0" THEN StripZeros(Tail(s)) ELSE s

\* The three digit runs of a string either form matches.
NumberTexts(s) ==
    LET p1 == FirstIndex(s, ".", 1)
        p2 == FirstIndex(s, ".", p1 + 1)
    IN  <<SubSeq(s, 1, p1 - 1), SubSeq(s, p1 + 1, p2 - 1),
          SubSeq(s, p2 + 1, p2 + RunLength(s, UnicodeDigit, p2 + 1))>>

\* C9: Version::parse succeeds exactly when the whole input matches the date
\* form or the general form, with major, minor and patch the values of their
\* digit runs; every failure is the "invalid version format" error carrying the
\* input.
C9_ParseOrInvalidFormat ==
    ParsedOne =>
        LET s == version_strs[1]
            r == versions[1]
        IN  /\ r.tag = "Ok" <=> (date_regex(s) # None \/ semver_regex(s) # None)
            /\ r.tag = "Ok" =>
                 /\ Decimal(r.val.major) = StripZeros(NumberTexts(s)[1])
                 /\ Decimal(r.val.minor) = StripZeros(NumberTexts(s)[2])
                 /\ Decimal(r.val.patch) = StripZeros(NumberTexts(s)[3])
            /\ r.tag # "Ok" => r = Err("InvalidVersionFormat", s)

\* s is MAJOR.MINOR.PATCH: three runs of digits 0-9 separated by dots.
ReleaseShape(s) ==
    \E p1, p2 \in DOMAIN s :
        /\ p1 < p2
        /\ s[p1] = "."
        /\ s[p2] = "."
        /\ IsRun(SubSeq(s, 1, p1 - 1), AsciiDigit)
        /\ IsRun(SubSeq(s, p1 + 1, p2 - 1), AsciiDigit)
        /\ IsRun(SubSeq(s, p2 + 1, Len(s)), AsciiDigit)

\* s is MAJOR.MINOR.PATCH-DDDDDDDD.
DateShape(s) ==
    /\ Len(s) > 9
    /\ s[Len(s) - 8] = "-"
    /\ IsRun(SubSeq(s, Len(s) - 7, Len(s)), AsciiDigit)
    /\ ReleaseShape(SubSeq(s, 1, Len(s) - 9))

\* C10: every MAJOR.MINOR.PATCH parses to a release that is no date version;
\* every MAJOR.MINOR.PATCH-DDDDDDDD parses to a date version that is no release,
\* with the 8 digits as pre_release and no build_metadata.
C10_ShapesParse ==
    ParsedOne =>
        LET s == version_strs[1]
            r == versions[1]
        IN  /\ ReleaseShape(s) =>
                 r.tag = "Ok" /\ is_release(r.val) /\ ~is_date_version(r.val)
            /\ DateShape(s) =>
                 /\ r.tag = "Ok"
                 /\ is_date_version(r.val)
                 /\ ~is_release(r.val)
                 /\ r.val.pre_release = Some(SubSeq(s, Len(s) - 7, Len(s)))
                 /\ r.val.build_metadata = None

\* ------------------------------------------------------------------------
\* Properties of extract_version_from_git_describe (SpecDescribe)
\* ------------------------------------------------------------------------

\* C11: normalization is idempotent: applied to its own result it returns that
\* result.
C11_Idempotent ==
    pc = "extracted_again" => normalized[2] = normalized[1]

\* t is a describe suffix: a dash, digits, "-g", hexadecimal digits.
IsDescribeSuffix(t) ==
    \E n \in 1..Len(t) :
        /\ Len(t) >= n + 4
        /\ t[1] = "-"
        /\ \A i \in 2..(n + 1) : t[i] \in AsciiDigit
        /\ t[n + 2] = "-"
        /\ t[n + 3] = "g"
        /\ \A i \in (n + 4)..Len(t) : t[i] \in HexChar

\* s without a leading refs/tags/.
WithoutRefsTags(s) ==
    IF Len(s) >= 10 /\ SubSeq(s, 1, 10) = RefsTagsPrefix THEN SubSeq(s, 11, Len(s)) ELSE s

\* s without everything up to its last slash.
AfterLastSlash(s) ==
    CHOOSE t \in {SubSeq(s, k + 1, Len(s)) : k \in 0..Len(s)} :
        /\ \A i \in DOMAIN t : t[i] # "/"
        /\ (Len(t) = Len(s) \/ s[Len(s) - Len(t)] = "/")

\* s without one trailing describe suffix.
WithoutDescribeSuffix(s) ==
    IF \E k \in DOMAIN s : IsDescribeSuffix(SubSeq(s, k, Len(s)))
    THEN SubSeq(s, 1, (CHOOSE k \in DOMAIN s : IsDescribeSuffix(SubSeq(s, k, Len(s)))) - 1)
    ELSE s

\* s without one leading v, when s is longer than 1.
WithoutV(s) == IF Len(s) > 1 /\ s[1] = "v" THEN SubSeq(s, 2, Len(s)) ELSE s

\* The four strippings in their order.
DescribedNormalize(s) == WithoutV(WithoutDescribeSuffix(AfterLastSlash(WithoutRefsTags(s))))

\* C12: normalization never fails; it strips a leading refs/tags/, then
\* everything up to the last slash, then one trailing describe suffix, then one
\* leading v of a string longer than 1; a version text X.Y.Z or X.Y.Z-DDDDDDDD in
\* any combination of these decorations comes back as itself, so
\* refs/tags/v4.2.2-5-g1a2b3c4 gives the release 4.2.2 and
\* release/4.2.2-20240901 the date version 4.2.2-20240901.
C12_NormalizeStrips ==
    pc # "extract" =>
        /\ normalized[1] = Ok(DescribedNormalize(raw_version))
        /\ \A refs \in RefsDecorations, path \in PathDecorations, v \in VDecorations,
              core \in VersionCores, suffix \in DescribeSuffixes :
                raw_version = Decorated(refs, path, v, core, suffix)
                    => normalized[1] = Ok(core)
        /\ raw_version = <<"r", "e", "f", "s", "/", "t", "a", "g", "s", "/", "v", "4", ".", "2", ".", "2", "-", "5", "-", "g", "1", "a", "2", "b", "3", "c", "4">>
             => /\ normalized[1] = Ok(<<"4", ".", "2", ".", "2">>)
                /\ is_release(Version_parse(normalized[1].val).val)
        /\ raw_version = <<"r", "e", "l", "e", "a", "s", "e", "/", "4", ".", "2", ".", "2", "-", "2", "0", "2", "4", "0", "9", "0", "1">>
             => /\ normalized[1] = Ok(<<"4", ".", "2", ".", "2", "-", "2", "0", "2", "4", "0", "9", "0", "1">>)
                /\ is_date_version(Version_parse(normalized[1].val).val)

\* The fully decorated release of the first scenario has been normalized.
C12_Witness ==
    /\ pc = "extracted"
    /\ raw_version = <<"r", "e", "f", "s", "/", "t", "a", "g", "s", "/", "v", "4", ".", "2", ".", "2", "-", "5", "-", "g", "1", "a", "2", "b", "3", "c", "4">>
    /\ normalized = <<Ok(<<"4", ".", "2", ".", "2">>)>>

\* ------------------------------------------------------------------------
\* Order of the candidates (SpecResolve)
\* ------------------------------------------------------------------------

\* The rearrangements of a sequence.
Rearrangements(seq) ==
    {[i \in DOMAIN seq |-> seq[f[i]]] :
        f \in {g \in [DOMAIN seq -> DOMAIN seq] : \A i, j \in DOMAIN seq : i # j => g[i] # g[j]}}

\* The sequences obtained by listing one element of seq a second time.
Duplications(seq) == {insert_at(seq, seq[i], k) : i \in DOMAIN seq, k \in 0..Len(seq)}

\* The outcome of a listing command with other lines.
WithLines(cmd, lines) == [status |-> cmd.status, lines |-> lines]

\* C20: for a fixed channel, permuting the candidates of either listing, or
\* listing one of them twice, never changes what get_latest_version returns.
C20_CandidatesUnordered ==
    Resolved =>
        /\ \A a \in Rearrangements(ls_remote.lines), b \in Rearrangements(tag_list.lines) :
              get_latest_version(channel, pre, WithLines(ls_remote, a),
                                 WithLines(tag_list, b)).result = latest.result
        /\ \A a \in Duplications(ls_remote.lines) :
              get_latest_version(channel, pre, WithLines(ls_remote, a), tag_list).result
                = latest.result
        /\ \A b \in Duplications(tag_list.lines) :
              get_latest_version(channel, pre, ls_remote, WithLines(tag_list, b)).result
                = latest.result

\* ------------------------------------------------------------------------
\* Channel inference and the channel marker (SpecInstaller)
\* ------------------------------------------------------------------------

\* The calls of get_current_channel the invocation has made so far.
GetCurrentChannelCalls ==
    (IF resolved # None THEN {resolved[1]} ELSE {})
    \cup (IF last_call # None /\ last_call[1].fn = "get_current_channel"
          THEN {last_call[1]} ELSE {})

\* The calls among them that inferred a channel from a describe output.
InferenceCalls ==
    {call \in GetCurrentChannelCalls : call.result.tag = "Ok" /\ call.describe \in Described}

\* The describe output `text` followed by its newline.
DescribedAs(text) == [status |-> "Success", stdout |-> text \o <<"\n">>]

\* C13: the channel inferred from an installed version that parses is Release
\* for a date version, otherwise Master for a version without pre_release,
\* otherwise Release; so it is Master exactly when the version has no
\* pre_release. v1.2.3 gives Master, 1.2.3-20240901 and v1.2.3-beta.1 give Release.
C13_InferredChannel ==
    \A call \in InferenceCalls :
        /\ Version_parse(DescribedVersion[call.describe]).tag = "Ok" =>
              /\ is_date_version(Version_parse(DescribedVersion[call.describe]).val)
                    => call.result.val = "Release"
              /\ (/\ ~is_date_version(Version_parse(DescribedVersion[call.describe]).val)
                  /\ is_release(Version_parse(DescribedVersion[call.describe]).val))
                    => call.result.val = "Master"
              /\ (/\ ~is_date_version(Version_parse(DescribedVersion[call.describe]).val)
                  /\ ~is_release(Version_parse(DescribedVersion[call.describe]).val))
                    => call.result.val = "Release"
              /\ call.result.val = "Master"
                    <=> Version_parse(DescribedVersion[call.describe]).val.pre_release = None
        /\ call.describe = DescribedAs(<<"v", "1", ".", "2", ".", "3">>) => call.result.val = "Master"
        /\ call.describe = DescribedAs(<<"v", "1", ".", "2", ".", "3", "-", "5", "-", "g", "1", "a", "2", "b", "3", "c", "4">>) => call.result.val = "Master"
        /\ call.describe = DescribedAs(<<"1", ".", "2", ".", "3", "-", "2", "0", "2", "4", "0", "9", "0", "1">>) => call.result.val = "Release"
        /\ call.describe = DescribedAs(<<"v", "1", ".", "2", ".", "3", "-", "b", "e", "t", "a", ".", "1">>) => call.result.val = "Release"

\* Inference from the describe output v1.2.3-beta.1 has returned Release.
C13_Witness ==
    /\ pc = "end"
    /\ config.action = "GetCurrentChannel"
    /\ last_call # None
    /\ last_call[1] \in InferenceCalls
    /\ last_call[1].describe = DescribedAs(<<"v", "1", ".", "2", ".", "3", "-", "b", "e", "t", "a", ".", "1">>)
    /\ last_call[1].result = Ok("Release")

\* C14: a marker whose trimmed content is neither master nor release in any
\* letter case is fatal where it is read: once the channel resolution of an
\* invocation has failed on it, the invocation makes no further call and
\* returns that error; an invocation goes on with a default channel only when
\* the marker was absent.
C14_InvalidMarkerFatal ==
    (resolved # None /\ resolved[1].result.tag = "Err") =>
        /\ resolved[1].result.err = "InvalidChannel" =>
              /\ last_call = None
              /\ pc = "end" => outcome = resolved[1].result
        /\ last_call # None => resolved[1].before = None

\* What a get_current_channel call that found a marker did: it read the marker
\* and nothing else, and returned the channel the marker names.
ReadOnly(call) ==
    /\ call.steps = <<"read_branch_file">>
    /\ call.describe = NotRun
    /\ call.after = call.before
    /\ call.result.tag = "Ok" =>
          /\ call.before \in {Some(<<"m", "a", "s", "t", "e", "r">>), Some(<<"M", "a", "s", "t", "e", "r">>), Some(<<"M", "A", "S", "T", "E", "R", "\n">>)} => call.result.val = "Master"
          /\ call.before \in {Some(<<"r", "e", "l", "e", "a", "s", "e">>), Some(<<" ", "R", "e", "l", "e", "a", "s", "e", "\n">>), Some(<<"R", "E", "L", "E", "A", "S", "E">>)} => call.result.val = "Release"
          /\ call.before # Some(<<"b", "e", "t", "a">>)
    /\ call.result.tag = "Err" =>
          \/ call.result.err = "Io"
          \/ call.result.err = "InvalidChannel" /\ call.before = Some(<<"b", "e", "t", "a">>)

\* The marker a call left, when the call changed it, is "master" or "release".
WroteLowercase(call) ==
    (call.after # call.before /\ call.after # None) =>
        call.after \in {Some(<<"m", "a", "s", "t", "e", "r">>), Some(<<"r", "e", "l", "e", "a", "s", "e">>)}

\* C15: a get_current_channel call that finds branch.txt returns the channel its
\* trimmed content names in any letter case and does nothing else: no check of
\* the repository, no fetch, no git describe, no write of the marker. What the
\* program writes to the marker is "master" or "release", and from_str reads
\* each of them back as the channel that was written.
C15_MarkerShortCircuits ==
    /\ \A call \in GetCurrentChannelCalls : call.before # None => ReadOnly(call)
    /\ resolved # None => WroteLowercase(resolved[1])
    /\ last_call # None => WroteLowercase(last_call[1])
    /\ \A c \in Channel :
          /\ Channel_as_str(c) \in {<<"m", "a", "s", "t", "e", "r">>, <<"r", "e", "l", "e", "a", "s", "e">>}
          /\ Channel_from_str(Channel_as_str(c)) = Ok(c)

\* --get-current-channel with the marker " Release\n" has returned Release
\* after reading the marker twice.
C15_Witness ==
    /\ pc = "end"
    /\ config.action = "GetCurrentChannel"
    /\ branch_file = Some(<<" ", "R", "e", "l", "e", "a", "s", "e", "\n">>)
    /\ resolved # None
    /\ resolved[1].result = Ok("Release")
    /\ last_call[1].steps = <<"read_branch_file">>
    /\ last_call[1].result = Ok("Release")
    /\ outcome = Ok(<<>>)

\* The get_current_channel calls that found no marker and inferred a channel.
Inferred == {call \in GetCurrentChannelCalls : call.before = None /\ call.result.tag = "Ok"}

\* A get_current_channel call made on the marker `marker` reads the channel c
\* from it, or fails to read the file, and does nothing else.
ReadsBack(marker, c) ==
    \A later \in get_current_channel([FS EXCEPT !.branch_file = marker], config.git_url) :
        /\ later.steps = <<"read_branch_file">>
        /\ later.fs.branch_file = marker
        /\ later.result \in {Ok(c), Err("Io", <<>>)}

\* The marker an inference left holds its channel, and the calls after it read
\* that channel.
InferencePersisted ==
    /\ \A call \in Inferred :
          /\ call.after = Some(Channel_as_str(call.result.val))
          /\ call.steps[Len(call.steps)] = "write_branch_file"
          /\ ReadsBack(call.after, call.result.val)
    /\ (/\ resolved # None
        /\ resolved[1] \in Inferred
        /\ last_call # None
        /\ last_call[1].fn = "get_current_channel")
            => /\ last_call[1].steps = <<"read_branch_file">>
               /\ last_call[1].result \in {resolved[1].result, Err("Io", <<>>)}

\* A step of an invocation that is not an install, an upgrade or an uninstall
\* leaves an existing marker as it is.
MarkerKept ==
    (branch_file # None /\ config'.action \notin {"Install", "Upgrade", "Uninstall"})
        => branch_file' = branch_file

\* C16: when get_current_channel finds no marker and infers the channel c, it
\* has written c to the marker when it returns; a later call, in this
\* invocation or in a later one, reads c from the marker without inferring
\* again, as long as no install, upgrade or uninstall has run in between.
C16_InferredOnce == [](InferencePersisted) /\ [][MarkerKept]_vars

\* --get-current-channel without a marker: the first call inferred Master and
\* wrote it, the second read it.
C16_Witness ==
    /\ pc = "end"
    /\ config.action = "GetCurrentChannel"
    /\ resolved # None
    /\ resolved[1] \in Inferred
    /\ resolved[1].result = Ok("Master")
    /\ branch_file = Some(<<"m", "a", "s", "t", "e", "r">>)
    /\ last_call[1].steps = <<"read_branch_file">>
    /\ last_call[1].result = Ok("Master")

\* ------------------------------------------------------------------------
\* The version switch of install and upgrade (SpecInstaller)
\* ------------------------------------------------------------------------

\* The order of the strategies.
Cascade == <<"checkout", "fetch_ref_reset", "fetch_all_reset", "reset_tags">>

\* The strategies among the steps of a call.
Strategies(steps) == SelectSeq(steps, LAMBDA step : \E k \in DOMAIN Cascade : step = Cascade[k])

\* The k-th strategy reported success, or failure, under the command statuses env.
Succeeded(env, k) ==
    IF k = 1 THEN env.checkout = "Success"
    ELSE IF k = 2 THEN env.fetch_ref = "Success" /\ env.reset_ref = "Success"
    ELSE IF k = 3 THEN env.fetch_all = "Success" /\ env.reset_all = "Success"
    ELSE env.reset_tags = "Success"

\* The latest call is the version switch of an upgrade that had to switch.
UpgradeSwitched ==
    /\ last_call # None
    /\ last_call[1].fn = "switch_version"
    /\ config.action = "Upgrade"
    /\ Strategies(last_call[1].steps) # <<>>

\* What the cascade did in the latest call: its result and the strategies tried.
Switched == [result |-> last_call[1].result, steps |-> Strategies(last_call[1].steps)]

\* The strategies tried in `switch` are the first ones of the cascade; under
\* every combination of command statuses that makes the cascade end as `switch`,
\* each strategy tried comes after failures only, and one that reports success
\* is the last one tried and makes the result Ok, which no other way does.
InOrder(switch) ==
    /\ switch.steps = SubSeq(Cascade, 1, Len(switch.steps))
    /\ \A env \in UpgradeSwitchEnvs :
          upgrade_switch(env) = switch =>
              /\ \A k \in 1..Len(switch.steps) : \A j \in 1..(k - 1) : ~Succeeded(env, j)
              /\ \A k \in 1..Len(switch.steps) :
                    Succeeded(env, k) => k = Len(switch.steps) /\ switch.result = Ok(<<>>)
              /\ switch.result = Ok(<<>>) => Succeeded(env, Len(switch.steps))

\* InOrder for each way the cascade can end.
CascadeInOrder == [switch \in UpgradeSwitchOutcomes |-> InOrder(switch)]

\* C17: the version switch of upgrade tries checkout, fetch of the tag and
\* reset, fetch of everything and reset, reset to tags/<version>, in this
\* order; a strategy is tried only after every earlier one reported failure;
\* the first one that reports success ends the cascade and the upgrade goes on
\* to its last steps.
C17_CascadeOrder ==
    UpgradeSwitched =>
        /\ Switched \in UpgradeSwitchOutcomes
        /\ CascadeInOrder[Switched]
        /\ Switched.result = Ok(<<>>) <=> pc = "upgrade_finish"

\* An upgrade whose first two strategies failed has switched with the third.
C17_Witness ==
    /\ UpgradeSwitched
    /\ pc = "upgrade_finish"
    /\ Strategies(last_call[1].steps) = <<"checkout", "fetch_ref_reset", "fetch_all_reset">>
    /\ last_call[1].result = Ok(<<>>)

\* The latest call is the version switch of an install or of an upgrade, and it
\* failed after trying a strategy.
SwitchFailed ==
    /\ last_call # None
    /\ last_call[1].fn = "switch_version"
    /\ config.action \in {"Install", "Upgrade"}
    /\ last_call[1].result.tag = "Err"
    /\ Strategies(last_call[1].steps) # <<>>

\* C18: install and upgrade fail at the version switch only when all four
\* strategies were tried and each of them failed; a strategy that exits with a
\* non-zero status or whose command cannot be run never makes the operation
\* fail while a later strategy is untried.
C18_FailsAfterAllFour == SwitchFailed => Strategies(last_call[1].steps) = Cascade

\* ------------------------------------------------------------------------
\* An installed version that does not parse (SpecInstaller)
\* ------------------------------------------------------------------------

\* The call read a describe output whose normalized text is not a version.
Unparsable(call) ==
    /\ call.describe \in Described
    /\ Version_parse(DescribedVersion[call.describe]).tag = "Err"

\* The call returned the MalformedVersion failure and left the marker alone.
Malformed(call) ==
    /\ call.result.tag = "Err"
    /\ call.result.err = "MalformedVersion"
    /\ call.after = call.before

\* C19: when the describe output of the installed checkout does not parse after
\* normalization, get_current_version and the channel inference of
\* get_current_channel return the MalformedVersion failure; no default takes
\* its place and nothing is written.
C19_MalformedIsReturned ==
    /\ (resolved # None /\ Unparsable(resolved[1])) => Malformed(resolved[1])
    /\ (last_call # None /\ Unparsable(last_call[1])) => Malformed(last_call[1])

\* ------------------------------------------------------------------------
\* The two forms of Version::parse (SpecVersion)
\* ------------------------------------------------------------------------

\* Version::parse with the general form as its only form.
GeneralOnly(s) == parse_captures(s, None, semver_regex(s))

\* C21: every string the date form accepts is accepted by the general form
\* with the same major, minor, patch and pre_release and no build_metadata, so
\* Version::parse returns on every input what a parser with the general form
\* alone returns.
C21_DateFormRedundant ==
    ParsedOne =>
        /\ date_regex(version_strs[1]) # None
              => semver_regex(version_strs[1]) = date_regex(version_strs[1])
        /\ versions[1] = GeneralOnly(version_strs[1])


\* The text extract_version_from_git_describe returns for raw.
normalize(raw) == extract_version_from_git_describe(raw).val

\* Whether Version::parse accepts the text.
Accepted(text) == Version_parse(text).tag = "Ok"

\* The tag texts t with raw_version = t + suffix for a describe suffix.
SuffixedTags ==
    {SubSeq(raw_version, 1, Len(raw_version) - Len(suffix)) :
        suffix \in {x \in DescribeSuffixes :
                      /\ x # <<>>
                      /\ Len(x) <= Len(raw_version)
                      /\ SubSeq(raw_version, Len(raw_version) - Len(x) + 1, Len(raw_version)) = x}}

\* C22: for a tag text t that Version::parse accepts, the normalized text of t
\* parses to a version that compares Equal to the version of t, and the
\* normalized text of t followed by a describe suffix is the normalized text of t.
C22_StripsOnlyDescribeSuffix ==
    pc = "extracted" =>
        /\ Accepted(raw_version) =>
              /\ Accepted(normalized[1].val)
              /\ Version_cmp(Version_parse(normalized[1].val).val,
                             Version_parse(raw_version).val) = "Equal"
        /\ \A t \in SuffixedTags : Accepted(t) => normalized[1].val = normalize(t)


\* ------------------------------------------------------------------------
\* The marker over install and upgrade (SpecInstaller)
\* ------------------------------------------------------------------------

\* The invocation has ended and its last call was the end of install or upgrade.
Finished ==
    /\ pc = "end"
    /\ config.action \in {"Install", "Upgrade"}
    /\ last_call # None
    /\ last_call[1].fn = "finish"

\* install or upgrade returned Ok after a version switch: execute_action
\* returned Ok, or the launch that follows install and upgrade failed.
SwitchedAndReturnedOk ==
    /\ Finished
    /\ \/ outcome.tag = "Ok"
       \/ last_call[1].steps[Len(last_call[1].steps)] = "launch"

\* upgrade was entered and returned an error.
UpgradeReturnedErr ==
    /\ pc = "end"
    /\ config.action = "Upgrade"
    /\ frame.entry_marker # None
    /\ outcome.tag = "Err"
    /\ ~SwitchedAndReturnedOk

\* The steps of install and upgrade that may follow the write of the marker.
AfterMarkerWrite == {<<>>, <<"launch">>}

\* The write of the marker is the last step that changes state.
MarkerWrittenLast ==
    (/\ config.action \in {"Install", "Upgrade"}
     /\ pc \notin {"idle", "channel", "dispatch"}
     /\ last_call # None)
        => \A k \in DOMAIN last_call[1].steps :
              last_call[1].steps[k] = "write_branch_file"
                  => /\ last_call[1].fn = "finish"
                     /\ SubSeq(last_call[1].steps, k + 1, Len(last_call[1].steps))
                            \in AfterMarkerWrite

\* C23: install and upgrade write the marker only as their last state change;
\* when upgrade returns an error the marker is as upgrade found it, and when
\* install or upgrade returns Ok after switching versions the marker holds the
\* channel the operation ran with and the next get_current_channel reads that
\* channel from it.
C23_MarkerWrittenLast ==
    /\ MarkerWrittenLast
    /\ UpgradeReturnedErr => branch_file = frame.entry_marker[1]
    /\ SwitchedAndReturnedOk =>
          /\ branch_file = Some(Channel_as_str(channel))
          /\ ReadsBack(branch_file, channel)


\* The step of upgrade that follows get_latest_version, taken with
\* current_version == latest_version: it changes no file, runs nothing but the
\* launch that --launch asks for, and upgrade returns Ok.
UpToDateStep ==
    (pc = "upgrade_switch" /\ frame.current_version = frame.latest_version)
        => /\ UNCHANGED <<program_dir, branch_file, git_file, origin>>
           /\ pc' = "end"
           /\ last_call'[1].steps \in AfterMarkerWrite
           /\ outcome'.tag = "Ok" \/ last_call'[1].steps = <<"launch">>

\* C24: when the current version string equals the latest version string,
\* upgrade returns Ok after the remote check and the fetch without cleaning the
\* git state, without a checkout or reset strategy, without create_symlinks or
\* fix_permissions and without writing the marker.
C24_UpToDateIsNoOp == [][UpToDateStep]_vars

\* An upgrade of an up-to-date installation has ended with Ok and the marker
\* it found.
C24_Witness ==
    /\ pc = "end"
    /\ config.action = "Upgrade"
    /\ frame.current_version # None
    /\ frame.current_version = frame.latest_version
    /\ last_call # None
    /\ last_call[1].steps = <<>>
    /\ last_call[1].result = Ok(<<>>)
    /\ outcome = Ok(<<>>)
    /\ frame.entry_marker = Some(branch_file)
    /\ branch_file # None


\* ------------------------------------------------------------------------
\* install and the Git URL configuration (SpecInstaller)
\* ------------------------------------------------------------------------

\* The latest call is the first part of install, up to the save after the clone.
InstallCloneCall ==
    /\ config.action = "Install"
    /\ last_call # None
    /\ last_call[1].fn = "install_clone"

\* Whether the latest call took the step.
Took(step) == \E k \in DOMAIN last_call[1].steps : last_call[1].steps[k] = step

\* Once install has reached `git clone` the previous installation is gone: no
\* marker, and no program directory other than the new clone.
PreviousGone ==
    (InstallCloneCall /\ Took("git_clone"))
        => /\ branch_file = None
           /\ IF last_call[1].result.tag = "Ok" \/ Took("save_git_url")
              THEN program_dir = "repo" /\ origin # None
              ELSE program_dir = "absent" /\ git_file = None /\ origin = None

\* install writes git.txt after the clone only when a URL was provided and
\* the clone holds no git.txt.
SavedOnlyProvided ==
    InstallCloneCall =>
        /\ Took("save_git_url") => config.git_url # None
        /\ (last_call[1].result.tag = "Ok" /\ config.git_url = None)
              => git_file \in {clone.git_file : clone \in CloneOutcomes}
        /\ (last_call[1].result.tag = "Ok" /\ config.git_url # None)
              => git_file # None

\* The errors of the fetch_remote that precedes get_latest_version in install.
FetchErrors == {Err("Io", <<>>), Err("FetchFailed", <<>>)}

\* install's get_latest_version call without --git-url on a clone whose git.txt
\* is missing or blank.
UnconfiguredInstall ==
    /\ config.action = "Install"
    /\ config.git_url = None
    /\ last_call # None
    /\ last_call[1].fn = "get_latest_version"
    /\ git_file_url(FS) = <<>>

UpdateGitUrlStep == pc = "dispatch" /\ config.action = "UpdateGitUrl"

FilesUnchanged == UNCHANGED <<program_dir, branch_file, git_file, origin>>

\* update_git_url leaves the files as they are when it rejects the URL or the
\* connectivity test fails, and an error it returns with the files changed
\* comes from `git remote set-url`, git.txt holding the new URL and origin the
\* old one.
UpdateGitUrlErrors ==
    UpdateGitUrlStep =>
        /\ ~is_valid_git_url(config.git_url[1]) => outcome'.tag = "Err" /\ FilesUnchanged
        /\ outcome'.tag = "Err" /\ outcome'.err \in {"InvalidUrl", "NotConnected"}
              => FilesUnchanged
        /\ (outcome'.tag = "Err" /\ ~FilesUnchanged)
              => /\ outcome'.err \in {"RemoteUrl", "Io"}
                 /\ git_file' = Some(config.git_url[1])
                 /\ origin' = origin
                 /\ origin # None
                 /\ program_dir' = program_dir
                 /\ branch_file' = branch_file

\* C26: update_git_url changes nothing when the URL fails the format
\* validation or the connectivity test; the only error it returns with the
\* files changed is that of a failing `git remote set-url`, after which git.txt
\* holds the new URL and origin the old one.
C26_UpdateGitUrlErrors == [][UpdateGitUrlErrors]_vars


\* The URLs a call of get_git_url can be given.
ProvidedUrls == {None, Some(ProvidedUrl)}

\* git.txt exists with content that is not blank.
NonBlank(file) == file # None /\ trim(file[1]) # <<>>

\* git.txt exists and can be read.
Readable(file) == file # None /\ read_to_string(file[1]).tag = "Ok"

\* get_git_url on the files as they are: git.txt when it is readable and not
\* blank, else the provided URL, which it writes, else an error.
GitFileFirst ==
    \A provided \in ProvidedUrls, saved \in SaveOutcomes :
        IF Readable(git_file) /\ NonBlank(git_file)
        THEN get_git_url(FS, provided, saved) = [result |-> Ok(trim(git_file[1])), fs |-> FS]
        ELSE IF provided # None
        THEN /\ get_git_url(FS, provided, saved).result = Ok(provided[1])
             /\ saved = "Saved" => get_git_url(FS, provided, saved).fs.git_file = provided
        ELSE get_git_url(FS, provided, saved) = [result |-> Err("NoGitConfig", <<>>), fs |-> FS]

\* An invocation with --git-url, other than --update-git-url, that found a
\* git.txt that is not blank does not leave the provided URL in it.
NonBlankKept ==
    (/\ config.action \notin {"None", "UpdateGitUrl"}
     /\ config.git_url # None
     /\ NonBlank(frame.entry_git_file[1]))
        => git_file # config.git_url

\* C27: get_git_url returns the trimmed content of git.txt when the file is
\* readable and not blank, whatever URL is provided; it returns the provided
\* URL, and writes it to git.txt, only when git.txt is missing, unreadable or
\* blank; with neither it fails; and no operation given --git-url overwrites a
\* git.txt that is not blank, which --update-git-url alone does.
C27_GitFileFirst == GitFileFirst /\ NonBlankKept

====
